---- MODULE Spec2Model ----
(***************************************************************************)
(* Model of the Milan telecom graph pipeline (abijbart/projectMobileX):    *)
(*   mi_to_mi_blocks.create_census_blocks_graph   (cell graph -> blocks)   *)
(*   mi_to_countries_blocks.get_block_graph       (cell-country -> blocks) *)
(*   mi_to_mi.aggregate_dates, mi_to_countries.collect_json (streaming)    *)
(*   mi_to_countries.json_to_networkx                                      *)
(*                                                                         *)
(* Numbers.  The program computes with Python floats.  The model computes  *)
(* with exact rationals in fixed point: an overlap percentage p is kept as *)
(* its numerator p*PScale, a block-graph weight as its numerator over Den. *)
(* Rounding error of the floating point sums is therefore not modelled.    *)
(*                                                                         *)
(* Nodes.  A networkx node is a hashable Python value.  The programs use   *)
(* ints (cell ids, SEZ2011 block ids) and strings 'm<cell>', 'c<code>'.    *)
(* A node is modelled as <<kind, id>> with kind "int", "m" or "c", so an   *)
(* int node and a string node are never equal.                             *)
(***************************************************************************)
EXTENDS Integers, Sequences, FiniteSets, TLC

(***************************************************************************)
(* Bounds of the model.                                                    *)
(***************************************************************************)
\* percentages are multiples of 1/PScale
PScale == 2
\* overlap records in the cell-to-block mapping
MaxRecords == 3
\* edges of the source cell graph
MaxEdges == 2
\* extracts (input files) of a streaming run
MaxExtracts == 3
\* entries of all extracts of an aggregate_dates run together
MaxEntries == 3
\* lines of all files of a collect_json run together
MaxLines == 2
\* records of all input files of a get_block_graph run together, when the
\* attribute tables are not empty
MaxInputs == 4
\* forced terminations of a streaming run
MaxCrashes == 1

Cells == {1, 2}
Blocks == {1, 2}
Weights == {1, 100}

\* denominator of the block-to-block weights: PScale * PScale for the two
\* percentages, 2 for the terminal halving
Den == 2 * PScale * PScale

VARIABLES
    prog,         \* the entry point that is running
    pc,           \* its position
    cellsMap,     \* cell -> list of overlap records (cell-to-block mapping JSON)
    blocksMap,    \* block -> list of overlap records with cellID (reverse JSON)
    cellsGraph,   \* the source graph read from the pickle
    blocksGraph,  \* the target graph under construction
    todo,         \* keys of blocksMap the outer loop has not visited yet
    log,          \* history: every contribution handed to the edge accumulation
    grid,         \* cell -> list of census blocks (the mapping aggregate_dates reads)
    milanNodes,   \* aggregate_dates: the cells kept in the graph
    graph,        \* the accumulated graph in memory (aggregate_dates, collect_json)
    extracts,     \* the input files of the run, in directory order
    fileIdx,      \* how many of them this run has processed and written
    disk,         \* the checkpoint file
    crashes,      \* how often the process was terminated
    crashedAt,    \* history: where the last termination happened
    graphDict,    \* json_to_networkx: the JSON written by collect_json
    graphCall,    \* json_to_networkx: the three graphs under construction
    graphSMS,
    graphInternet,
    held,         \* history: the parsed structures of extracts that are referenced
    jsonFiles,    \* relation_graph_to_json: the JSON files written, by index
    censusAttributes, \* the census JSON: block id -> record (key -> value)
    attrs,        \* the attribute dict of every node of blocksGraph
    keys,         \* the keys taken from the first node that has attributes
    missingBlocks,    \* add_census_attributes: the blocks without a record
    abbrToNames,  \* names.json: country abbreviation -> display name
    abbrToCodes,  \* phone.json: country abbreviation -> calling codes
    countryCodesMap,  \* country_codes_map.json: calling code -> name
    milanPolygons,    \* overlap mapper: the cell polygons, in file order
    censusPolygons    \* overlap mapper: the census polygons, in file order

blockVars == <<cellsMap, blocksMap, cellsGraph, blocksGraph, todo>>
streamVars == <<grid, milanNodes, graph, extracts, fileIdx, disk, crashes, crashedAt>>
nxVars == <<graphDict, graphCall, graphSMS, graphInternet>>
relVars == <<held, jsonFiles>>
attrVars == <<censusAttributes, attrs, keys, missingBlocks, abbrToNames, abbrToCodes, countryCodesMap>>
mapVars == <<milanPolygons, censusPolygons>>
vars == <<prog, pc, log, blockVars, streamVars, nxVars, relVars, attrVars, mapVars>>

(***************************************************************************)
(* Generic helpers.                                                        *)
(***************************************************************************)
Min(S) == CHOOSE x \in S : \A y \in S : x <= y

RECURSIVE SortedSeq(_)
\* the elements of a finite set of integers in increasing order
SortedSeq(S) == IF S = {} THEN <<>> ELSE <<Min(S)>> \o SortedSeq(S \ {Min(S)})

RECURSIVE FlatMap(_, _)
\* concatenation of F(s[1]), F(s[2]), ...: a nested for loop over s
FlatMap(F(_), s) == IF s = <<>> THEN <<>> ELSE F(Head(s)) \o FlatMap(F, Tail(s))

RECURSIVE SumSeq(_, _)
SumSeq(F(_), s) == IF s = <<>> THEN 0 ELSE F(Head(s)) + SumSeq(F, Tail(s))

RECURSIVE SumSet(_, _)
SumSet(F(_), S) ==
    IF S = {} THEN 0
    ELSE LET x == CHOOSE y \in S : TRUE IN F(x) + SumSet(F, S \ {x})

(***************************************************************************)
(* networkx.Graph: a node set and, per unordered node pair, one attribute  *)
(* dict (adj[u][v] and adj[v][u] are the same dict object).  Only the      *)
(* 'weight' attribute is used by the programs.                             *)
(***************************************************************************)
IntNode(n) == <<"int", n>>
MNode(n) == <<"m", n>>
CNode(n) == <<"c", n>>

EmptyGraph == [nodes |-> {}, edges |-> <<>>]

HasNode(G, n) == n \in G.nodes

\* Graph.add_node
AddNode(G, n) == [G EXCEPT !.nodes = @ \cup {n}]

\* mutant: a directed graph, u->v and v->u are two edges
EdgeKeyOrdered(u, v) == <<u, v>>

\* the key under which the edge u-v is stored
EdgeKey(u, v) == {u, v}

HasEdge(G, u, v) == EdgeKey(u, v) \in DOMAIN G.edges

\* G.edges[u, v]['weight']
Weight(G, u, v) == G.edges[EdgeKey(u, v)]

\* Graph.add_edge(u, v, weight=w): adds missing endpoints, sets the weight
AddEdge(G, u, v, w) ==
    [nodes |-> G.nodes \cup {u, v},
     edges |-> [e \in DOMAIN G.edges \cup {EdgeKey(u, v)} |->
                   IF e = EdgeKey(u, v) THEN w ELSE G.edges[e]]]

(***************************************************************************)
(* Python float addition.  A float holds every integer up to 2^53 exactly; *)
(* from there on the representable values are 2 apart up to 2^54, 4 apart  *)
(* up to 2^55, 8 apart up to 2^56, and a sum is rounded to the nearest of  *)
(* them, a tie to the one with the even significand.  Big stands for 2^53  *)
(* (a smaller power of two, so that the numbers of the model fit TLC's     *)
(* integers); every other weight of the model is far below it, so that its *)
(* arithmetic is exact.                                                    *)
(***************************************************************************)
Big == 1048576

\* the distance of the floats around n
Ulp(n) == IF n < Big THEN 1 ELSE IF n < 2 * Big THEN 2 ELSE IF n < 4 * Big THEN 4 ELSE 8

\* round to nearest, ties to even
FloatRound(n) ==
    LET s == Ulp(n)
        q == n \div s
        r == n % s
    IN IF 2 * r < s THEN q * s
       ELSE IF 2 * r > s THEN (q + 1) * s
       ELSE IF q % 2 = 0 THEN q * s ELSE (q + 1) * s

\* x + y on floats
FloatAdd(x, y) == FloatRound(x + y)

RECURSIVE FloatSumFrom(_, _, _)
FloatSumFrom(acc, F(_), s) ==
    IF s = <<>> THEN acc ELSE FloatSumFrom(FloatAdd(acc, F(Head(s))), F, Tail(s))

\* the float sum of F over s, added from the first element on
FloatSum(F(_), s) == FloatSumFrom(0, F, s)

\* mutant: the existing weight is replaced by the new contribution
AccumulateOverwrite(G, u, v, w) == AddEdge(G, u, v, w)

\* try: G.edges[u, v]['weight'] += w   except KeyError: G.add_edge(u, v, weight=w)
Accumulate(G, u, v, w) ==
    IF HasEdge(G, u, v)
    THEN [G EXCEPT !.edges[EdgeKey(u, v)] = FloatAdd(@, w)]
    ELSE AddEdge(G, u, v, w)

\* Graph.edges([n], data=True): the edges incident to n, each once (a
\* self-loop n-n is reported once); nothing when n is not a node
IncidentEdges(G, n) ==
    LET nbrs == {m \in G.nodes : HasEdge(G, n, m)}
        ids == SortedSeq({m[2] : m \in nbrs})
        kindOf(i) == CHOOSE m \in nbrs : m[2] = i
    IN IF ~HasNode(G, n) THEN <<>>
       ELSE [k \in DOMAIN ids |->
                LET m == kindOf(ids[k])
                IN [cellNodeFrom |-> n, cellNodeTo |-> m,
                    weight |-> G.edges[EdgeKey(n, m)]]]

(***************************************************************************)
(* The overlap mapping written by create_sezioni_censimento_millan_grid_map *)
(* and its reverse.                                                        *)
(***************************************************************************)
\* the percentages an overlap record may carry: the whole region (snapped to
\* 1 by the mapper) or a proper part of it
Full == PScale
Part == PScale \div 2
Pcts == {Part, Full}

\* the (cell, block) pairs that may overlap
RecordSlots == Cells \X Blocks

\* grid[cellId]: one record per overlapping census polygon, in polygon order
CellMapOf(S, census, milan) ==
    [c \in Cells |->
        LET bs == SortedSeq({b \in Blocks : <<c, b>> \in S})
        IN [k \in DOMAIN bs |->
               [SEZ2011 |-> bs[k],
                censusAreaPercentage |-> census[<<c, bs[k]>>],
                milanAreaPercentage |-> milan[<<c, bs[k]>>]]]]

CellMaps ==
    {CellMapOf(S, census, milan) :
        <<S, census, milan>> \in
            UNION {{S} \X [S -> Pcts] \X [S -> Pcts] :
                S \in {T \in SUBSET RecordSlots : Cardinality(T) <= MaxRecords}}}

\* milan_grid_census_blocks_map_reverse: block -> copies of its records,
\* each with the cell's id added, in the order the cells are visited; a block
\* no cell overlaps has no key
ReverseMap(cellMap) ==
    LET blockIds == {b \in Blocks : \E c \in Cells : \E k \in DOMAIN cellMap[c] :
                     cellMap[c][k].SEZ2011 = b}
        copies(b, c) ==
            LET ks == SortedSeq({k \in DOMAIN cellMap[c] : cellMap[c][k].SEZ2011 = b})
            IN [j \in DOMAIN ks |->
                   [cellID |-> c,
                    SEZ2011 |-> b,
                    censusAreaPercentage |-> cellMap[c][ks[j]].censusAreaPercentage,
                    milanAreaPercentage |-> cellMap[c][ks[j]].milanAreaPercentage]]
    IN [b \in blockIds |->
           LET F(c) == copies(b, c) IN FlatMap(F, SortedSeq(Cells))]

(***************************************************************************)
(* Source cell graphs: the pickle written by aggregate_dates.  from <= to   *)
(* in relation_graph_to_json, and from = to is possible, so a cell graph   *)
(* may hold self-loops.                                                    *)
(***************************************************************************)
CellPairs == {<<a, b>> \in Cells \X Cells : a <= b}

CellGraphOf(E, w) ==
    [nodes |-> {IntNode(c) : c \in Cells},
     edges |-> [e \in {EdgeKey(IntNode(p[1]), IntNode(p[2])) : p \in E} |->
                   LET p == CHOOSE q \in E : EdgeKey(IntNode(q[1]), IntNode(q[2])) = e
                   IN w[p]]]

CellGraphs ==
    {CellGraphOf(E, w) :
        <<E, w>> \in UNION {{E} \X [E -> Weights] :
            E \in {T \in SUBSET CellPairs : Cardinality(T) <= MaxEdges}}}

(***************************************************************************)
(* mi_to_mi_blocks.create_census_blocks_graph                              *)
(***************************************************************************)
\* mutant: the cell-side percentage of the source record is used
ContributionMilanFrom(w, cellFrom, blockTo) ==
    2 * w * cellFrom.milanAreaPercentage * blockTo.censusAreaPercentage

\* weight = cellEdgeAttributes['weight'] * cellFrom['censusAreaPercentage']
\*          * blockTo['censusAreaPercentage'],  as a numerator over Den
Contribution(w, cellFrom, blockTo) ==
    2 * w * cellFrom.censusAreaPercentage * blockTo.censusAreaPercentage

\* the contributions of one iteration of the outer loop (one key of
\* blocksMap), in the order of the three inner loops
BlockContributions(SEZ2011) ==
    LET perCell(cellFrom) ==
            LET perEdge(edge) ==
                    LET perBlock(blockTo) ==
                            <<[g |-> "blocksGraph",
                               u |-> IntNode(SEZ2011),
                               v |-> IntNode(blockTo.SEZ2011),
                               cellFrom |-> cellFrom.cellID,
                               cellTo |-> edge.cellNodeTo[2],
                               source |-> edge.weight,
                               weight |-> Contribution(edge.weight, cellFrom, blockTo)]>>
                    IN FlatMap(perBlock, cellsMap[edge.cellNodeTo[2]])
            IN FlatMap(perEdge, IncidentEdges(cellsGraph, IntNode(cellFrom.cellID)))
    IN FlatMap(perCell, blocksMap[SEZ2011])

RECURSIVE ApplyContributions(_, _)
\* has_node/add_node of the destination, then the edge accumulation
ApplyContributions(G, cs) ==
    IF cs = <<>> THEN G
    ELSE ApplyContributions(
             Accumulate(AddNode(G, Head(cs).v), Head(cs).u, Head(cs).v, Head(cs).weight),
             Tail(cs))

\* mutant: the halving pass is left out
NormalizeSkipped(G) == G

\* for (node1, node2) in blocksGraph.edges(): weight /= 2   (each edge once)
Normalize(G) == [G EXCEPT !.edges = [e \in DOMAIN G.edges |-> G.edges[e] \div 2]]

\* the state of the variables an entry point does not use
IdleBlocks ==
    /\ cellsMap = <<>>
    /\ blocksMap = <<>>
    /\ cellsGraph = EmptyGraph
    /\ blocksGraph = EmptyGraph
    /\ todo = <<>>

NoFile == [state |-> "absent"]

NoCrash == [pc |-> "none", k |-> 0, upto |-> 0]

IdleNx ==
    /\ graphDict = <<>>
    /\ graphCall = EmptyGraph
    /\ graphSMS = EmptyGraph
    /\ graphInternet = EmptyGraph

IdleMap ==
    /\ milanPolygons = <<>>
    /\ censusPolygons = <<>>

IdleRel ==
    /\ held = {}
    /\ jsonFiles = <<>>

IdleAttr ==
    /\ censusAttributes = <<>>
    /\ attrs = <<>>
    /\ keys = {}
    /\ missingBlocks = {}
    /\ abbrToNames = <<>>
    /\ abbrToCodes = <<>>
    /\ countryCodesMap = <<>>

IdleStream ==
    /\ grid = <<>>
    /\ milanNodes = {}
    /\ graph = EmptyGraph
    /\ extracts = <<>>
    /\ fileIdx = 0
    /\ disk = NoFile
    /\ crashes = 0
    /\ crashedAt = NoCrash

InitBlocks ==
    /\ IdleMap
    /\ IdleAttr
    /\ IdleRel
    /\ IdleStream
    /\ IdleNx
    /\ prog = "create_census_blocks_graph"
    /\ pc = "loop"
    /\ cellsMap \in CellMaps
    /\ blocksMap = ReverseMap(cellsMap)
    /\ cellsGraph \in CellGraphs
    /\ blocksGraph = EmptyGraph
    /\ todo = SortedSeq(DOMAIN blocksMap)
    /\ log = <<>>

\* one iteration of `for SEZ2011, cellsFrom in blocksMap.items()`
\* mutant: the traversal writes into the source graph, the target being the
\* same instance
BlockStepInPlace ==
    /\ prog = "create_census_blocks_graph"
    /\ pc = "loop"
    /\ todo # <<>>
    /\ LET SEZ2011 == Head(todo)
           cs == BlockContributions(SEZ2011)
       IN /\ blocksGraph' = ApplyContributions(AddNode(blocksGraph, IntNode(SEZ2011)), cs)
          /\ cellsGraph' = ApplyContributions(AddNode(cellsGraph, IntNode(SEZ2011)), cs)
          /\ log' = log \o cs
    /\ todo' = Tail(todo)
    /\ UNCHANGED <<mapVars, attrVars, relVars, nxVars, prog, pc, cellsMap, blocksMap, streamVars>>

BlockStep ==
    /\ prog = "create_census_blocks_graph"
    /\ pc = "loop"
    /\ todo # <<>>
    /\ LET SEZ2011 == Head(todo)
           cs == BlockContributions(SEZ2011)
       IN /\ blocksGraph' = ApplyContributions(AddNode(blocksGraph, IntNode(SEZ2011)), cs)
          /\ log' = log \o cs
    /\ todo' = Tail(todo)
    /\ UNCHANGED <<mapVars, attrVars, relVars, nxVars, prog, pc, cellsMap, blocksMap, cellsGraph, streamVars>>

\* the normalisation loop after the traversal, and the dump of the graph
BlocksNormalize ==
    /\ prog = "create_census_blocks_graph"
    /\ pc = "loop"
    /\ todo = <<>>
    /\ blocksGraph' = Normalize(blocksGraph)
    /\ pc' = "done"
    /\ UNCHANGED <<mapVars, attrVars, relVars, nxVars, prog, cellsMap, blocksMap, cellsGraph, todo, log, streamVars>>

NextBlocks == BlockStep \/ BlocksNormalize

SpecBlocks == InitBlocks /\ [][NextBlocks]_vars

(***************************************************************************)
(* mi_to_countries_blocks.get_block_graph: the edge loop (lines 117-168).  *)
(* The source graph is one of the pickles of json_to_networkx: nodes       *)
(* 'm<cell>' and 'c<code>', every edge between an 'm' and a 'c' node.      *)
(* Weights of the target graph are numerators over PScale.                 *)
(***************************************************************************)
Countries == {0, 39}

CountryPairs == Cells \X Countries

CountryGraphOf(E, w) ==
    [nodes |-> {MNode(p[1]) : p \in E} \cup {CNode(p[2]) : p \in E},
     edges |-> [e \in {EdgeKey(MNode(p[1]), CNode(p[2])) : p \in E} |->
                   LET p == CHOOSE q \in E : EdgeKey(MNode(q[1]), CNode(q[2])) = e
                   IN w[p]]]

CountryGraphs ==
    {CountryGraphOf(E, w) :
        <<E, w>> \in UNION {{E} \X [E -> Weights] :
            E \in {T \in SUBSET CountryPairs : Cardinality(T) <= MaxEdges}}}

\* mutant: the double-counting correction of the block-to-block graph is
\* applied here too
CountryContributionHalved(w, cellFrom) == (w * cellFrom.censusAreaPercentage) \div 2

\* weight = cellEdgeAttributes['weight'] * cellFrom['censusAreaPercentage']
CountryContribution(w, cellFrom) == w * cellFrom.censusAreaPercentage

\* the sanity checks of lines 132-135
EdgeIsCellToCountry(edge) == edge.cellNodeFrom[1] = "m" /\ edge.cellNodeTo[1] = "c"

\* the contributions of one iteration of the outer loop, in loop order
CountryBlockContributions(SEZ2011) ==
    LET perCell(cellFrom) ==
            LET perEdge(edge) ==
                    <<[g |-> "blocksGraph",
                       u |-> IntNode(SEZ2011),
                       v |-> edge.cellNodeTo,
                       cellFrom |-> cellFrom.cellID,
                       cellTo |-> edge.cellNodeTo[2],
                       source |-> edge.weight,
                       weight |-> CountryContribution(edge.weight, cellFrom)]>>
            IN FlatMap(perEdge, IncidentEdges(cellsGraph, MNode(cellFrom.cellID)))
    IN FlatMap(perCell, blocksMap[SEZ2011])

InitCountries ==
    /\ IdleMap
    /\ IdleAttr
    /\ IdleRel
    /\ IdleStream
    /\ IdleNx
    /\ prog = "get_block_graph"
    /\ pc = "loop"
    /\ cellsMap \in CellMaps
    /\ blocksMap = ReverseMap(cellsMap)
    /\ cellsGraph \in CountryGraphs
    /\ blocksGraph = EmptyGraph
    /\ todo = SortedSeq(DOMAIN blocksMap)
    /\ log = <<>>

\* one iteration of `for SEZ2011, cellsFrom in blocksCellsMap.items()`
CountryBlockStep ==
    /\ prog = "get_block_graph"
    /\ pc = "loop"
    /\ todo # <<>>
    /\ LET SEZ2011 == Head(todo)
           cs == CountryBlockContributions(SEZ2011)
           edgesOk == \A cellFrom \in {blocksMap[SEZ2011][k] : k \in DOMAIN blocksMap[SEZ2011]} :
                         LET es == IncidentEdges(cellsGraph, MNode(cellFrom.cellID))
                         IN \A k \in DOMAIN es : EdgeIsCellToCountry(es[k])
       IN IF edgesOk
          THEN /\ blocksGraph' = ApplyContributions(AddNode(blocksGraph, IntNode(SEZ2011)), cs)
               /\ log' = log \o cs
               /\ todo' = Tail(todo)
               /\ pc' = pc
          ELSE \* raise ValueError
               /\ pc' = "raised"
               /\ UNCHANGED <<blocksGraph, log, todo>>
    /\ UNCHANGED <<mapVars, attrVars, relVars, nxVars, prog, cellsMap, blocksMap, cellsGraph, streamVars>>

\* the edge loop is over: the attribute pass follows
CountryLoopEnd ==
    /\ prog = "get_block_graph"
    /\ pc = "loop"
    /\ todo = <<>>
    /\ pc' = "attributes"
    /\ UNCHANGED <<mapVars, attrVars, relVars, nxVars, prog, cellsMap, blocksMap, cellsGraph, blocksGraph, todo, log, streamVars>>

NextCountries == CountryBlockStep \/ CountryLoopEnd

SpecCountries == InitCountries /\ [][NextCountries]_vars

(***************************************************************************)
(* The checkpoint file.  open(path, 'w' / 'wb') truncates the file at      *)
(* once; the dump then writes the new content; until it has finished the   *)
(* file holds a prefix of the new content ("partial": neither the previous *)
(* snapshot nor the new one).                                              *)
(***************************************************************************)
\* an extract's weights: w = float(w)
StreamWeights == {1, Big}

Truncated == [state |-> "partial"]

\* mutant: the graph is dumped before the current extract was added to it
SnapshotStale(G, k) ==
    [state |-> "complete",
     content |-> IF disk.state = "complete" THEN disk.content ELSE EmptyGraph,
     upto |-> k]

\* pickle.dump(graph, stream) / json.dump(graph, stream) run to completion;
\* upto (history) counts the extracts the written graph reflects
Snapshot(G, k) == [state |-> "complete", content |-> G, upto |-> k]

\* the number of extracts the checkpoint file reflects
Reflected == IF disk.state = "complete" THEN disk.upto ELSE 0

(***************************************************************************)
(* mi_to_mi.aggregate_dates                                                *)
(***************************************************************************)
\* the lists of census blocks a cell may have in the mapping
GridLists == {[k \in 1 .. n |-> k] : n \in 0 .. Cardinality(Blocks)}

Grids == [Cells -> GridLists]

\* one day's JSON of relation_graph_to_json: {from: {to: weight}}, from <= to
AggDicts ==
    UNION {[K -> StreamWeights] :
        K \in {T \in SUBSET CellPairs : Cardinality(T) <= MaxEntries}}

RECURSIVE TotalSize(_)
TotalSize(s) == IF s = <<>> THEN 0 ELSE Cardinality(DOMAIN Head(s)) + TotalSize(Tail(s))

AggExtractSeqs ==
    {s \in UNION {[1 .. n -> AggDicts] : n \in 0 .. MaxExtracts} :
        TotalSize(s) <= MaxEntries}

PairBefore(p, q) == p[1] < q[1] \/ (p[1] = q[1] /\ p[2] <= q[2])

RECURSIVE PairSeq(_)
\* the keys of a nested dict in iteration order
PairSeq(S) ==
    IF S = {} THEN <<>>
    ELSE LET p == CHOOSE x \in S : \A y \in S : PairBefore(x, y)
         IN <<p>> \o PairSeq(S \ {p})

\* milanNodes: `if len(censusBlocks) > 1`
MilanNodes(g) == {c \in DOMAIN g : Len(g[c]) > 1}

\* mutant: a restarted run takes the checkpoint as its starting graph
FreshGraphResumed(nodes) ==
    IF disk.state = "complete" THEN disk.content
    ELSE [nodes |-> {IntNode(c) : c \in nodes}, edges |-> <<>>]

\* graph = networkx.Graph(); for node in milanNodes: graph.add_node(node)
FreshGraph(nodes) == [nodes |-> {IntNode(c) : c \in nodes}, edges |-> <<>>]

\* only the outer key is filtered
AggContributionsOneEnd(nodes, dictionary) ==
    LET perEntry(p) ==
            IF p[1] \in nodes
            THEN <<[g |-> "graph", u |-> IntNode(p[1]), v |-> IntNode(p[2]),
                    weight |-> dictionary[p]]>>
            ELSE <<>>
    IN FlatMap(perEntry, PairSeq(DOMAIN dictionary))

\* the contributions of one extract: the entries with both ends in milanNodes
AggContributions(nodes, dictionary) ==
    LET perEntry(p) ==
            IF p[1] \in nodes /\ p[2] \in nodes
            THEN <<[g |-> "graph", u |-> IntNode(p[1]), v |-> IntNode(p[2]),
                    weight |-> dictionary[p]]>>
            ELSE <<>>
    IN FlatMap(perEntry, PairSeq(DOMAIN dictionary))

RECURSIVE ApplyAccumulate(_, _)
\* the edge accumulation, one contribution after the other
ApplyAccumulate(G, cs) ==
    IF cs = <<>> THEN G
    ELSE ApplyAccumulate(Accumulate(G, Head(cs).u, Head(cs).v, Head(cs).weight), Tail(cs))

\* the body of `for filePath in DATA_DIR.iterdir()` up to the dump
AggregateDict(G, nodes, dictionary) == ApplyAccumulate(G, AggContributions(nodes, dictionary))

InitAggregate ==
    /\ IdleMap
    /\ IdleAttr
    /\ IdleRel
    /\ IdleBlocks
    /\ IdleNx
    /\ prog = "aggregate_dates"
    /\ pc = "start"
    /\ log = <<>>
    /\ grid \in Grids
    /\ milanNodes = {}
    /\ graph = EmptyGraph
    /\ extracts \in AggExtractSeqs
    /\ fileIdx = 0
    /\ disk = NoFile
    /\ crashes = 0
    /\ crashedAt = NoCrash

\* lines 98-110: the empty graph over the node universe
AggStart ==
    /\ prog = "aggregate_dates"
    /\ pc = "start"
    /\ milanNodes' = MilanNodes(grid)
    /\ graph' = FreshGraph(MilanNodes(grid))
    /\ pc' = "iter"
    /\ UNCHANGED <<mapVars, attrVars, relVars, nxVars, prog, log, blockVars, grid, extracts, fileIdx, disk, crashes, crashedAt>>

\* the parsed structure of extract k, referenced as `name`
Parsed(k, name) == [of |-> k, as |-> name]

\* lines 120-121, right-hand side: json.load(stream) builds the dict of the
\* next extract while the name `dictionary` still refers to the previous one
AggLoad ==
    /\ prog = "aggregate_dates"
    /\ pc = "iter"
    /\ fileIdx < Len(extracts)
    /\ held' = held \cup {Parsed(fileIdx + 1, "json.load")}
    /\ pc' = "loaded"
    /\ UNCHANGED <<mapVars, attrVars, jsonFiles, nxVars, prog, log, blockVars, streamVars>>

\* lines 121-125: the result is bound to `dictionary`, which drops the last
\* reference to the previous dict; gc.collect()
AggBind ==
    /\ prog = "aggregate_dates"
    /\ pc = "loaded"
    /\ held' = {Parsed(fileIdx + 1, "dictionary")}
    /\ pc' = "process"
    /\ UNCHANGED <<mapVars, attrVars, jsonFiles, nxVars, prog, log, blockVars, streamVars>>

\* lines 127-146: every entry of the loaded extract is added to the graph
AggProcess ==
    /\ prog = "aggregate_dates"
    /\ pc = "process"
    /\ graph' = AggregateDict(graph, milanNodes, extracts[fileIdx + 1])
    /\ log' = log \o AggContributions(milanNodes, extracts[fileIdx + 1])
    /\ pc' = "write"
    /\ UNCHANGED <<mapVars, attrVars, relVars, nxVars, prog, blockVars, grid, milanNodes, extracts, fileIdx, disk, crashes, crashedAt>>

\* line 148: open(..., 'wb')
AggWriteOpen ==
    /\ prog = "aggregate_dates"
    /\ pc = "write"
    /\ disk' = Truncated
    /\ pc' = "dump"
    /\ UNCHANGED <<mapVars, attrVars, relVars, nxVars, prog, log, blockVars, grid, milanNodes, graph, extracts, fileIdx, crashes, crashedAt>>

\* line 149: pickle.dump(graph, stream), and the file is closed
AggWriteDump ==
    /\ prog = "aggregate_dates"
    /\ pc = "dump"
    /\ disk' = Snapshot(graph, fileIdx + 1)
    /\ fileIdx' = fileIdx + 1
    /\ pc' = "iter"
    /\ UNCHANGED <<mapVars, attrVars, relVars, nxVars, prog, log, blockVars, grid, milanNodes, graph, extracts, crashes, crashedAt>>

\* the directory iteration is exhausted and the function returns
AggFinish ==
    /\ prog = "aggregate_dates"
    /\ pc = "iter"
    /\ fileIdx = Len(extracts)
    /\ held' = {}
    /\ pc' = "done"
    /\ UNCHANGED <<mapVars, attrVars, jsonFiles, nxVars, prog, log, blockVars, streamVars>>

(***************************************************************************)
(* Termination of a streaming run (out of memory, kill) and its restart.   *)
(* The memory of the process is lost, the checkpoint file stays as it is.  *)
(***************************************************************************)
Running == pc \in {"start", "iter", "loaded", "process", "write", "dump"}

Crash ==
    /\ prog \in {"aggregate_dates", "collect_json"}
    /\ Running
    /\ crashes < MaxCrashes
    /\ crashes' = crashes + 1
    /\ crashedAt' = [pc |-> pc, k |-> fileIdx, upto |-> Reflected]
    /\ pc' = "crashed"
    /\ graph' = EmptyGraph
    /\ milanNodes' = {}
    /\ fileIdx' = 0
    /\ log' = <<>>
    /\ held' = {}
    /\ UNCHANGED <<mapVars, attrVars, jsonFiles, nxVars, prog, blockVars, grid, extracts, disk>>

\* the entry point is run again
Restart ==
    /\ prog \in {"aggregate_dates", "collect_json"}
    /\ pc = "crashed"
    /\ pc' = "start"
    /\ crashedAt' = [crashedAt EXCEPT !.pc = "restarted", !.k = 0]
    /\ UNCHANGED <<mapVars, attrVars, relVars, nxVars, prog, log, blockVars, grid, milanNodes, graph, extracts, fileIdx, disk, crashes>>

(***************************************************************************)
(* mi_to_countries.collect_json and validate.                              *)
(* A line is the list of its tab separated fields (strings).  A parsed     *)
(* token is a Python value: a number, the empty string or False.           *)
(***************************************************************************)
Num(n) == [k |-> "num", v |-> n]
PyEmpty == [k |-> "str", v |-> 0]
PyFalse == [k |-> "bool", v |-> 0]

\* the numerals of the model and their values; int() and float() strip the
\* newline that ends the last field of a line
NumeralValue == ("0" :> 0) @@ ("1" :> 1) @@ ("2" :> 2) @@ ("39" :> 39)

\* is_int
IsInt(s) ==
    IF s = "" THEN PyEmpty
    ELSE IF s \in DOMAIN NumeralValue THEN Num(NumeralValue[s])
    ELSE PyFalse

\* is_float
IsFloat(s) ==
    IF s = "" THEN PyEmpty
    ELSE IF s \in DOMAIN NumeralValue THEN Num(NumeralValue[s])
    ELSE PyFalse

\* Python ==: a bool is the number 0 or 1, a string equals only a string
PyEq(a, b) ==
    IF a.k = "str" \/ b.k = "str" THEN a.k = b.k /\ a.v = b.v
    ELSE a.v = b.v

\* Python truth value of a parsed token
Truthy(t) == t.k = "num" /\ t.v # 0

\* validate: the parsed tokens (the timestamp, field 1, is not parsed)
Validate(tokens) ==
    [i \in DOMAIN tokens |->
        IF i = 2 THEN Num(0)
        ELSE IF i < 4 THEN IsInt(tokens[i])
        ELSE IsFloat(tokens[i])]

\* validate raises ValueError: a wrong field count, or a parsed token with
\* `tokens[i] != 0 and tokens[i] == False`
ValidateRaises(tokens) ==
    \/ Len(tokens) # 8
    \/ \E i \in DOMAIN tokens :
          /\ i # 2
          /\ ~PyEq(Validate(tokens)[i], Num(0))
          /\ PyEq(Validate(tokens)[i], PyFalse)

\* the key object a dict with the keys `present` uses for t: keys that are
\* == (and hash alike) are one key, and the object inserted first stays
DictKey(present, t) ==
    IF \E x \in present : PyEq(x, t) THEN CHOOSE x \in present : PyEq(x, t) ELSE t

NewConnection ==
    [smsIn |-> 0, smsInCount |-> 0, smsOut |-> 0, smsOutCount |-> 0,
     callIn |-> 0, callInCount |-> 0, callOut |-> 0, callOutCount |-> 0, cdr |-> 0]

\* lines 128-158 for one validated line; graph[cell][country] is kept under
\* the key <<cell, country>>
CollectLine(G, tokens) ==
    LET t == Validate(tokens)
        cell == DictKey({x[1] : x \in DOMAIN G}, t[1])
        country == DictKey({x[2] : x \in {y \in DOMAIN G : y[1] = cell}}, t[3])
        key == <<cell, country>>
        local == IF key \in DOMAIN G THEN G[key] ELSE NewConnection
        add(f, i) == IF Truthy(t[i]) THEN local[f] + t[i].v ELSE local[f]
        cnt(f, i) == IF Truthy(t[i]) THEN local[f] + 1 ELSE local[f]
        updated ==
            [smsIn |-> add("smsIn", 4), smsInCount |-> cnt("smsInCount", 4),
             smsOut |-> add("smsOut", 5), smsOutCount |-> cnt("smsOutCount", 5),
             callIn |-> add("callIn", 6), callInCount |-> cnt("callInCount", 6),
             callOut |-> add("callOut", 7), callOutCount |-> cnt("callOutCount", 7),
             cdr |-> add("cdr", 8)]
    IN [x \in DOMAIN G \cup {key} |-> IF x = key THEN updated ELSE G[x]]

RECURSIVE CollectFile(_, _)
\* `for line in stream`: the lines are accumulated until one makes validate
\* raise; the result is the graph and whether the loop ran to the end
CollectFile(G, lines) ==
    IF lines = <<>> THEN [graph |-> G, ok |-> TRUE]
    ELSE IF ValidateRaises(Head(lines)) THEN [graph |-> G, ok |-> FALSE]
    ELSE CollectFile(CollectLine(G, Head(lines)), Tail(lines))

\* the magnitude fields 3..7 of the lines of the model: absent, zero and
\* nonzero values ("\n": the last field is empty and holds only the line end)
MagnitudeRows == {<<"", "1", "2", "", "1">>, <<"1", "0", "1", "1", "\n">>}

\* well-formed lines, a line with too few fields and a line whose cell id is
\* no number
Lines ==
    {<<cell, "t", country>> \o row :
        cell \in {"1", "2"}, country \in {"0", "39"}, row \in MagnitudeRows}
    \cup {<<"1", "t", "39", "1">>}
    \cup {<<"x", "t", "39", "1", "", "", "", "1">>}

RECURSIVE SumLengths(_)
SumLengths(v) == IF v = <<>> THEN 0 ELSE Head(v) + SumLengths(Tail(v))

\* the numbers of lines of the files of a run
FileLengths ==
    {v \in UNION {[1 .. n -> 0 .. MaxLines] : n \in 0 .. MaxExtracts} :
        SumLengths(v) <= MaxLines}

\* the files with the lengths v and, one after the other, the lines of flat
FilesOf(v, flat) ==
    [i \in DOMAIN v |->
        LET before == SumLengths(SubSeq(v, 1, i - 1))
        IN SubSeq(flat, before + 1, before + v[i])]

CollectExtractSeqs ==
    UNION {{FilesOf(v, flat) : flat \in [1 .. SumLengths(v) -> Lines]} : v \in FileLengths}

InitCollect ==
    /\ IdleMap
    /\ IdleAttr
    /\ IdleRel
    /\ IdleBlocks
    /\ IdleNx
    /\ prog = "collect_json"
    /\ pc = "start"
    /\ log = <<>>
    /\ grid = <<>>
    /\ milanNodes = {}
    /\ graph = EmptyGraph
    /\ extracts \in CollectExtractSeqs
    /\ fileIdx = 0
    /\ disk = NoFile
    /\ crashes = 0
    /\ crashedAt = NoCrash

\* line 94: graph = {}
CollectStart ==
    /\ prog = "collect_json"
    /\ pc = "start"
    /\ graph' = <<>>
    /\ pc' = "iter"
    /\ UNCHANGED <<mapVars, attrVars, relVars, nxVars, prog, log, blockVars, grid, milanNodes, extracts, fileIdx, disk, crashes, crashedAt>>

\* line 103: the next .txt file is opened
CollectOpen ==
    /\ prog = "collect_json"
    /\ pc = "iter"
    /\ fileIdx < Len(extracts)
    /\ pc' = "process"
    /\ UNCHANGED <<mapVars, attrVars, relVars, nxVars, prog, log, blockVars, streamVars>>

\* lines 126-158: the lines of the file; a ValueError ends the run
CollectProcess ==
    /\ prog = "collect_json"
    /\ pc = "process"
    /\ LET r == CollectFile(graph, extracts[fileIdx + 1])
       IN /\ graph' = r.graph
          /\ pc' = IF r.ok THEN "write" ELSE "raised"
    /\ UNCHANGED <<mapVars, attrVars, relVars, nxVars, prog, log, blockVars, grid, milanNodes, extracts, fileIdx, disk, crashes, crashedAt>>

\* line 161: open(JSON_PATH, 'w')
CollectWriteOpen ==
    /\ prog = "collect_json"
    /\ pc = "write"
    /\ disk' = Truncated
    /\ pc' = "dump"
    /\ UNCHANGED <<mapVars, attrVars, relVars, nxVars, prog, log, blockVars, grid, milanNodes, graph, extracts, fileIdx, crashes, crashedAt>>

\* line 162: json.dump(graph, stream), and the file is closed
CollectWriteDump ==
    /\ prog = "collect_json"
    /\ pc = "dump"
    /\ disk' = Snapshot(graph, fileIdx + 1)
    /\ fileIdx' = fileIdx + 1
    /\ pc' = "iter"
    /\ UNCHANGED <<mapVars, attrVars, relVars, nxVars, prog, log, blockVars, grid, milanNodes, graph, extracts, crashes, crashedAt>>

\* the directory iteration is exhausted
CollectFinish ==
    /\ prog = "collect_json"
    /\ pc = "iter"
    /\ fileIdx = Len(extracts)
    /\ pc' = "done"
    /\ UNCHANGED <<mapVars, attrVars, relVars, nxVars, prog, log, blockVars, streamVars>>

NextCollect ==
    \/ CollectStart \/ CollectOpen \/ CollectProcess \/ CollectWriteOpen
    \/ CollectWriteDump \/ CollectFinish

(***************************************************************************)
(* mi_to_mi.relation_graph_to_json.                                        *)
(* A line is the list of its tab separated fields; graph and graphDict are *)
(* kept as functions of the key <<from, to>>; fileIdx is `index`.          *)
(***************************************************************************)
\* int(s) / float(s) raises ValueError
RelNumberRaises(s) == s \notin DOMAIN NumeralValue

\* lines 74-79 raise: int() or float() of a field that is no numeral
\* (ValueError), or tokens[3] of a line with fewer than four fields
\* (IndexError); fields after the fourth are not looked at
RelLineRaises(tokens) ==
    \/ Len(tokens) < 4
    \/ RelNumberRaises(tokens[2])
    \/ RelNumberRaises(tokens[3])
    \/ RelNumberRaises(tokens[4])

\* lines 74-79 for a line that does not raise
RelLine(G, tokens) ==
    LET a == NumeralValue[tokens[2]]
        b == NumeralValue[tokens[3]]
        key == IF a > b THEN <<b, a>> ELSE <<a, b>>
        old == IF key \in DOMAIN G THEN G[key] ELSE 0
    IN [x \in DOMAIN G \cup {key} |->
           IF x = key THEN FloatAdd(old, NumeralValue[tokens[4]]) ELSE G[x]]

RECURSIVE RelFile(_, _)
\* `for line in stream`, until a line raises
RelFile(G, lines) ==
    IF lines = <<>> THEN [graph |-> G, ok |-> TRUE]
    ELSE IF RelLineRaises(Head(lines)) THEN [graph |-> G, ok |-> FALSE]
    ELSE RelFile(RelLine(G, Head(lines)), Tail(lines))

\* well-formed lines, a line with three fields, one with five, and one whose
\* from-cell is no number
RelLines ==
    {<<"t", a, b, "1">> : a \in {"1", "2"}, b \in {"1", "2"}}
    \cup {<<"t", "2", "1", "2">>}
    \cup {<<"t", "1", "2">>}
    \cup {<<"t", "1", "2", "1", "1">>}
    \cup {<<"t", "x", "2", "1">>}

RelExtractSeqs ==
    UNION {{FilesOf(v, flat) : flat \in [1 .. SumLengths(v) -> RelLines]} : v \in FileLengths}

InitRelation ==
    /\ IdleMap
    /\ IdleAttr
    /\ IdleBlocks
    /\ prog = "relation_graph_to_json"
    /\ pc = "iter"
    /\ log = <<>>
    /\ grid = <<>>
    /\ milanNodes = {}
    /\ graph = <<>>
    /\ extracts \in RelExtractSeqs
    /\ fileIdx = 0
    /\ disk = NoFile
    /\ crashes = 0
    /\ crashedAt = NoCrash
    /\ graphDict = <<>>
    /\ graphCall = EmptyGraph
    /\ graphSMS = EmptyGraph
    /\ graphInternet = EmptyGraph
    /\ held = {}
    /\ jsonFiles = <<>>

\* lines 55-61: index += 1, the file is opened, graph = defaultdict(...)
\* replaces the graph of the previous file
RelOpen ==
    /\ prog = "relation_graph_to_json"
    /\ pc = "iter"
    /\ fileIdx < Len(extracts)
    /\ fileIdx' = fileIdx + 1
    /\ graph' = <<>>
    /\ held' = {h \in held : h.as # "graph"} \cup {Parsed(fileIdx + 1, "graph")}
    /\ pc' = "process"
    /\ UNCHANGED <<mapVars, attrVars, jsonFiles, nxVars, prog, log, blockVars, grid, milanNodes, extracts, disk, crashes, crashedAt>>

\* what was parsed before the exception is written as file `index`
RelProcessDumpPartial ==
    /\ prog = "relation_graph_to_json"
    /\ pc = "process"
    /\ LET r == RelFile(graph, extracts[fileIdx])
       IN /\ graph' = r.graph
          /\ pc' = IF r.ok THEN "copy" ELSE "raised"
          /\ jsonFiles' = IF r.ok THEN jsonFiles
                          ELSE [i \in DOMAIN jsonFiles \cup {fileIdx} |->
                                   IF i = fileIdx THEN [state |-> "complete", content |-> r.graph]
                                   ELSE jsonFiles[i]]
    /\ UNCHANGED <<mapVars, attrVars, held, nxVars, prog, log, blockVars, grid, milanNodes, extracts, fileIdx, disk, crashes, crashedAt>>

\* lines 62-79: the lines of the file; an exception ends the run
RelProcess ==
    /\ prog = "relation_graph_to_json"
    /\ pc = "process"
    /\ LET r == RelFile(graph, extracts[fileIdx])
       IN /\ graph' = r.graph
          /\ pc' = IF r.ok THEN "copy" ELSE "raised"
    /\ UNCHANGED <<mapVars, attrVars, relVars, nxVars, prog, log, blockVars, grid, milanNodes, extracts, fileIdx, disk, crashes, crashedAt>>

\* lines 81-83: graphDict = {} replaces the dict of the previous file and is
\* filled with a copy of graph
RelCopy ==
    /\ prog = "relation_graph_to_json"
    /\ pc = "copy"
    /\ graphDict' = graph
    /\ held' = {h \in held : h.as # "graphDict"} \cup {Parsed(fileIdx, "graphDict")}
    /\ pc' = "write"
    /\ UNCHANGED <<mapVars, attrVars, jsonFiles, graphCall, graphSMS, graphInternet, prog, log, blockVars, streamVars>>

\* line 85: open(..._{index}.json, 'w')
RelWriteOpen ==
    /\ prog = "relation_graph_to_json"
    /\ pc = "write"
    /\ jsonFiles' = [i \in DOMAIN jsonFiles \cup {fileIdx} |->
                        IF i = fileIdx THEN Truncated ELSE jsonFiles[i]]
    /\ pc' = "dump"
    /\ UNCHANGED <<mapVars, attrVars, held, nxVars, prog, log, blockVars, streamVars>>

\* line 86: json.dump(graphDict, stream), and the file is closed
RelWriteDump ==
    /\ prog = "relation_graph_to_json"
    /\ pc = "dump"
    /\ jsonFiles' = [jsonFiles EXCEPT ![fileIdx] = [state |-> "complete", content |-> graphDict]]
    /\ pc' = "iter"
    /\ UNCHANGED <<mapVars, attrVars, held, nxVars, prog, log, blockVars, streamVars>>

\* the directory iteration is exhausted and the function returns
RelFinish ==
    /\ prog = "relation_graph_to_json"
    /\ pc = "iter"
    /\ fileIdx = Len(extracts)
    /\ held' = {}
    /\ pc' = "done"
    /\ UNCHANGED <<mapVars, attrVars, jsonFiles, nxVars, prog, log, blockVars, streamVars>>

NextRelation ==
    \/ RelOpen \/ RelProcess \/ RelCopy \/ RelWriteOpen \/ RelWriteDump \/ RelFinish

SpecRelation == InitRelation /\ [][NextRelation]_vars

\* the streaming entry points
InitStream == InitAggregate \/ InitCollect \/ InitRelation

NextStream ==
    \/ AggStart \/ AggLoad \/ AggBind \/ AggProcess \/ AggWriteOpen \/ AggWriteDump \/ AggFinish
    \/ NextCollect
    \/ NextRelation
    \/ Crash \/ Restart

SpecStream == InitStream /\ [][NextStream]_vars

(***************************************************************************)
(* mi_to_countries.json_to_networkx.                                       *)
(* Call and SMS weights are numerators over CDen, so that the division by  *)
(* an occurrence count is exact; Internet weights are plain numbers.       *)
(***************************************************************************)
RECURSIVE Factorial(_)
Factorial(n) == IF n <= 1 THEN 1 ELSE n * Factorial(n - 1)

\* every occurrence count is at most MaxLines
CDen == Factorial(MaxLines)

RECURSIVE CollectUpTo(_)
\* the graph collect_json holds after the first k extracts
CollectUpTo(k) == IF k = 0 THEN <<>> ELSE CollectFile(CollectUpTo(k - 1), extracts[k]).graph

RECURSIVE CollectAll(_, _)
CollectAll(G, files) ==
    IF files = <<>> THEN G ELSE CollectAll(CollectFile(G, Head(files)).graph, Tail(files))

FilesAreValid(files) == \A i \in DOMAIN files : \A j \in DOMAIN files[i] : ~ValidateRaises(files[i][j])

\* the JSON files a complete run of collect_json writes
GraphDicts == {CollectAll(<<>>, files) : files \in {f \in CollectExtractSeqs : FilesAreValid(f)}}

\* json.dump writes a key as a string; the nodes carry the number the string
\* denotes, -1 for the empty string and -2 for "false"
JsonKey(t) == IF t.k = "num" THEN t.v ELSE IF t.k = "str" THEN 0 - 1 ELSE 0 - 2

\* int(node1) raises ValueError unless the string is a numeral
IntRaises(t) == t.k # "num"

\* the directional sum is added as it is
DirectionTotal(sum, count) == IF count > 0 THEN sum * CDen ELSE 0

\* lines 206-222
DirectionAverage(sum, count) == IF count > 0 THEN (sum * CDen) \div count ELSE 0

CallWeight(connectDict) ==
    DirectionAverage(connectDict.callIn, connectDict.callInCount)
        + DirectionAverage(connectDict.callOut, connectDict.callOutCount)

SmsWeight(connectDict) ==
    DirectionAverage(connectDict.smsIn, connectDict.smsInCount)
        + DirectionAverage(connectDict.smsOut, connectDict.smsOutCount)

\* the contributions of one iteration of `for node1, innerDict in ...`
NxContributions(node1) ==
    LET inner == PairSeq({<<JsonKey(x[2]), 0>> : x \in {y \in DOMAIN graphDict : y[1] = node1}})
        perCountry(p) ==
            LET x == CHOOSE y \in DOMAIN graphDict : y[1] = node1 /\ JsonKey(y[2]) = p[1]
                u == MNode(JsonKey(node1))
                v == CNode(p[1])
            IN <<[g |-> "graphCall", u |-> u, v |-> v, weight |-> CallWeight(graphDict[x])],
                 [g |-> "graphSMS", u |-> u, v |-> v, weight |-> SmsWeight(graphDict[x])],
                 [g |-> "graphInternet", u |-> u, v |-> v, weight |-> graphDict[x].cdr]>>
    IN FlatMap(perCountry, inner)

\* the contributions of cs that go to the graph named g
ContributionsTo(g, cs) ==
    LET pick(c) == IF c.g = g THEN <<c>> ELSE <<>> IN FlatMap(pick, cs)

InitNx ==
    /\ IdleMap
    /\ IdleAttr
    /\ IdleRel
    /\ IdleBlocks
    /\ IdleStream
    /\ prog = "json_to_networkx"
    /\ pc = "loop"
    /\ log = <<>>
    /\ graphDict \in GraphDicts
    /\ graphCall = EmptyGraph
    /\ graphSMS = EmptyGraph
    /\ graphInternet = EmptyGraph

\* one iteration of `for node1, innerDict in graphDict.items()`
NxNodeStep ==
    /\ prog = "json_to_networkx"
    /\ pc = "loop"
    /\ \E node1 \in {x[1] : x \in DOMAIN graphDict} :
          /\ MNode(JsonKey(node1)) \notin graphCall.nodes
          /\ \A other \in {x[1] : x \in DOMAIN graphDict} :
                MNode(JsonKey(other)) \notin graphCall.nodes => JsonKey(node1) <= JsonKey(other)
          /\ IF IntRaises(node1)
             THEN /\ pc' = "raised"
                  /\ UNCHANGED <<graphCall, graphSMS, graphInternet, log>>
             ELSE LET cs == NxContributions(node1)
                      withNode(G) == AddNode(G, MNode(JsonKey(node1)))
                  IN /\ graphCall' = ApplyContributions(withNode(graphCall), ContributionsTo("graphCall", cs))
                     /\ graphSMS' = ApplyContributions(withNode(graphSMS), ContributionsTo("graphSMS", cs))
                     /\ graphInternet' = ApplyContributions(withNode(graphInternet), ContributionsTo("graphInternet", cs))
                     /\ log' = log \o cs
                     /\ pc' = pc
    /\ UNCHANGED <<mapVars, attrVars, relVars, prog, blockVars, streamVars, graphDict>>

\* lines 238-243: the three pickles are written
NxFinish ==
    /\ prog = "json_to_networkx"
    /\ pc = "loop"
    /\ \A x \in DOMAIN graphDict : MNode(JsonKey(x[1])) \in graphCall.nodes
    /\ pc' = "done"
    /\ UNCHANGED <<mapVars, attrVars, relVars, prog, log, blockVars, streamVars, nxVars>>

NextNx == NxNodeStep \/ NxFinish

SpecNx == InitNx /\ [][NextNx]_vars

(***************************************************************************)
(* The attribute dicts of the nodes.  An attribute value is a Python       *)
(* value: a number, a text, or None.  The nodes of a graph are visited in  *)
(* the order block nodes (increasing), country nodes (increasing).         *)
(***************************************************************************)
PyNone == [k |-> "none", v |-> 0]
Text(s) == [k |-> "text", v |-> s]

NodeSeq(G) ==
    LET ints == SortedSeq({n[2] : n \in {x \in G.nodes : x[1] = "int"}})
        cs == SortedSeq({n[2] : n \in {x \in G.nodes : x[1] = "c"}})
    IN [i \in DOMAIN ints |-> IntNode(ints[i])] \o [i \in DOMAIN cs |-> CNode(cs[i])]

\* for key, attr in record.items(): nodes[node][key] = attr
MergeAttrs(old, record) ==
    [key \in DOMAIN old \cup DOMAIN record |->
        IF key \in DOMAIN record THEN record[key] ELSE old[key]]

NoAttrs(G) == [n \in G.nodes |-> <<>>]

\* the key sets of the records of the census JSON
RecordShapes == {{"SEZ2011", "P1"}, {"SEZ2011", "P2"}, {"SEZ2011", "P1", "P2"}, {"P1"}}

CensusRecord(b, shape) == [key \in shape |-> IF key = "SEZ2011" THEN Num(b) ELSE Num(7)]

CensusTables ==
    UNION {{[b \in S |-> CensusRecord(b, shape[b])] : shape \in [S -> RecordShapes]} :
        S \in SUBSET Blocks}

\* block-to-block graphs as create_census_blocks_graph pickles them
BlockGraphs ==
    UNION {{[nodes |-> {IntNode(b) : b \in S}, edges |-> [e \in E |-> 1]] :
               E \in SUBSET {{IntNode(a), IntNode(b)} : a, b \in S}} :
        S \in SUBSET Blocks}

(***************************************************************************)
(* mi_to_mi_blocks.add_census_attributes, followed by                      *)
(* mi_to_mi_blocks.census_block_graph_fill_in_holes on the graph it wrote. *)
(***************************************************************************)
InitAttributes ==
    /\ IdleMap
    /\ IdleRel
    /\ IdleStream
    /\ IdleNx
    /\ prog = "add_census_attributes"
    /\ pc = "add"
    /\ cellsMap = <<>>
    /\ blocksMap = <<>>
    /\ cellsGraph = EmptyGraph
    /\ blocksGraph \in BlockGraphs
    /\ censusAttributes \in CensusTables
    /\ attrs = NoAttrs(blocksGraph)
    /\ todo = NodeSeq(blocksGraph)
    /\ log = <<>>
    /\ keys = {}
    /\ missingBlocks = {}
    /\ abbrToNames = <<>>
    /\ abbrToCodes = <<>>
    /\ countryCodesMap = <<>>

\* the except branch swallows the KeyError
AddAttrStepSwallow ==
    /\ prog = "add_census_attributes"
    /\ pc = "add"
    /\ todo # <<>>
    /\ LET node == Head(todo)
       IN IF node[2] \in DOMAIN censusAttributes
          THEN /\ attrs' = [attrs EXCEPT ![node] = MergeAttrs(@, censusAttributes[node[2]])]
               /\ UNCHANGED missingBlocks
          ELSE UNCHANGED <<attrs, missingBlocks>>
    /\ todo' = Tail(todo)
    /\ UNCHANGED <<mapVars, relVars, nxVars, streamVars, prog, pc, log, cellsMap, blocksMap, cellsGraph,
                   blocksGraph, censusAttributes, keys, abbrToNames, abbrToCodes, countryCodesMap>>

\* lines 113-118: one iteration of `for node in blocksGraph.nodes()`
AddAttrStep ==
    /\ prog = "add_census_attributes"
    /\ pc = "add"
    /\ todo # <<>>
    /\ LET node == Head(todo)
       IN IF node[2] \in DOMAIN censusAttributes
          THEN /\ attrs' = [attrs EXCEPT ![node] = MergeAttrs(@, censusAttributes[node[2]])]
               /\ UNCHANGED missingBlocks
          ELSE \* except KeyError
               /\ missingBlocks' = missingBlocks \cup {node[2]}
               /\ UNCHANGED attrs
    /\ todo' = Tail(todo)
    /\ UNCHANGED <<mapVars, relVars, nxVars, streamVars, prog, pc, log, cellsMap, blocksMap, cellsGraph,
                   blocksGraph, censusAttributes, keys, abbrToNames, abbrToCodes, countryCodesMap>>

\* lines 120-124: the graph and the list of missing blocks are written
AddAttrWrite ==
    /\ prog = "add_census_attributes"
    /\ pc = "add"
    /\ todo = <<>>
    /\ pc' = "added"
    /\ UNCHANGED <<mapVars, relVars, nxVars, streamVars, attrVars, prog, log, blockVars>>

\* `for (node, attrs) in ...: if attrs: keys = attrs.keys(); break`
FirstKeys(G, A) ==
    LET s == NodeSeq(G)
        idx == {i \in DOMAIN s : DOMAIN A[s[i]] # {}}
    IN IF idx = {} THEN {} ELSE DOMAIN A[s[Min(idx)]]

\* lines 293-298: census_block_graph_fill_in_holes loads the graph and takes
\* the keys of the first node that has attributes
FillStart ==
    /\ prog = "add_census_attributes"
    /\ pc = "added"
    /\ prog' = "census_block_graph_fill_in_holes"
    /\ keys' = FirstKeys(blocksGraph, attrs)
    /\ todo' = NodeSeq(blocksGraph)
    /\ pc' = "fill"
    /\ UNCHANGED <<mapVars, relVars, nxVars, streamVars, log, cellsMap, blocksMap, cellsGraph, blocksGraph,
                   censusAttributes, attrs, missingBlocks, abbrToNames, abbrToCodes, countryCodesMap>>

\* `if not attrs: for key in keys: nodes[node][key] = None`
FillNone(a) == IF DOMAIN a = {} THEN [key \in keys |-> PyNone] ELSE a

\* nodes[node]['SEZ2011'] raises KeyError
NoIdentifier(a) == "SEZ2011" \notin DOMAIN FillNone(a)

\* `if nodes[node]['SEZ2011'] is None: nodes[node]['SEZ2011'] = node`
FillIdentifier(node, a) ==
    LET filled == FillNone(a)
    IN IF filled["SEZ2011"] = PyNone
       THEN [filled EXCEPT !["SEZ2011"] = Num(node[2])]
       ELSE filled

\* lines 300-305: one iteration of the fill loop
FillStep ==
    /\ prog = "census_block_graph_fill_in_holes"
    /\ pc = "fill"
    /\ todo # <<>>
    /\ LET node == Head(todo)
       IN IF NoIdentifier(attrs[node])
          THEN /\ attrs' = [attrs EXCEPT ![node] = FillNone(@)]
               /\ pc' = "raised"
               /\ UNCHANGED todo
          ELSE /\ attrs' = [attrs EXCEPT ![node] = FillIdentifier(node, @)]
               /\ todo' = Tail(todo)
               /\ pc' = pc
    /\ UNCHANGED <<mapVars, relVars, nxVars, streamVars, prog, log, cellsMap, blocksMap, cellsGraph,
                   blocksGraph, censusAttributes, keys, missingBlocks, abbrToNames, abbrToCodes,
                   countryCodesMap>>

\* lines 311-317: every node has as many attributes as the first one
SameLengths(G, A) == Cardinality({Cardinality(DOMAIN A[n]) : n \in G.nodes}) <= 1

\* lines 311-320: the length check raises ValueError, or the graph is written
FillCheck ==
    /\ prog = "census_block_graph_fill_in_holes"
    /\ pc = "fill"
    /\ todo = <<>>
    /\ pc' = IF SameLengths(blocksGraph, attrs) THEN "done" ELSE "raised"
    /\ UNCHANGED <<mapVars, relVars, nxVars, streamVars, attrVars, prog, log, blockVars>>

(***************************************************************************)
(* mi_to_countries.create_country_code_map.  A string of phone.json is the *)
(* sequence of its characters; a calling code is a sequence of digits.     *)
(***************************************************************************)
DigitChars == <<"0", "1", "2", "3", "4", "5", "6", "7", "8", "9">>

RECURSIVE Digits(_)
\* str(n) for a number n >= 0; str(node)[1:] of the node 'c' + str(n)
Digits(n) == IF n < 10 THEN <<DigitChars[n + 1]>> ELSE Digits(n \div 10) \o <<DigitChars[(n % 10) + 1]>>

\* ''.join(filter(lambda x: x in ' 0123456789', val))
KeepDigitsAndSpaces(val) ==
    SelectSeq(val, LAMBDA x : x = " " \/ \E i \in DOMAIN DigitChars : DigitChars[i] = x)

RECURSIVE SplitOnSpace(_, _)
\* s.split(' '): cur is the piece being read
SplitOnSpace(s, cur) ==
    IF s = <<>> THEN <<cur>>
    ELSE IF Head(s) = " " THEN <<cur>> \o SplitOnSpace(Tail(s), <<>>)
    ELSE SplitOnSpace(Tail(s), Append(cur, Head(s)))

\* the codes of one value of phone.json; empty pieces are ignored
CodesOf(val) ==
    LET pieces == SplitOnSpace(KeepDigitsAndSpaces(val), <<>>)
    IN {pieces[i] : i \in {j \in DOMAIN pieces : pieces[j] # <<>>}}

\* lines 268-280 (the tables of the model hold at most one abbreviation, so
\* that no code is claimed by two of them)
CodesToAbbr(phones) ==
    [code \in UNION {CodesOf(phones[a]) : a \in DOMAIN phones} |->
        CHOOSE a \in DOMAIN phones : code \in CodesOf(phones[a])]

\* without the inner try of line 291: a code whose abbreviation has no name
\* gets None
CreateCountryCodeMapNoFallback(codes, names, phones) ==
    LET codesToAbbr == CodesToAbbr(phones)
    IN [code \in codes |->
           IF code \in DOMAIN codesToAbbr /\ codesToAbbr[code] \in DOMAIN names
           THEN Text(names[codesToAbbr[code]])
           ELSE PyNone]

\* lines 282-293
CreateCountryCodeMap(codes, names, phones) ==
    LET codesToAbbr == CodesToAbbr(phones)
    IN [code \in codes |->
           IF code \in DOMAIN codesToAbbr
           THEN IF codesToAbbr[code] \in DOMAIN names
                THEN Text(names[codesToAbbr[code]])
                ELSE Text(codesToAbbr[code])
           ELSE PyNone]

\* lines 260-262: the codes of the country nodes of the cell graphs
CountryCodes(G) == {Digits(n[2]) : n \in {x \in G.nodes : x[1] = "c"}}

PhoneTables ==
    {<<>>, [a \in {"IT"} |-> <<"+", "3", "9">>], [a \in {"IT"} |-> <<"+", "3", "9", " ", "0">>]}

NameTables == {<<>>, [a \in {"IT"} |-> "Italy"]}

(***************************************************************************)
(* The attribute pass of get_block_graph (lines 170-212).                  *)
(***************************************************************************)
\* the records of all input files of a run together
InputSize(table, names, phones) ==
    LET perCell(c) == Len(cellsMap[c])
    IN SumSet(perCell, DOMAIN cellsMap) + Cardinality(DOMAIN cellsGraph.edges)
           + Cardinality(DOMAIN table) + Cardinality(DOMAIN names) + Cardinality(DOMAIN phones)

\* lines 173-175: the census JSON and the country codes map are read; the
\* map is the one create_country_code_map wrote for the cell graphs
CountryAttrLoad ==
    /\ prog = "get_block_graph"
    /\ pc = "attributes"
    /\ \E table \in CensusTables : \E names \in NameTables : \E phones \in PhoneTables :
          /\ \/ InputSize(table, names, phones) <= MaxInputs
             \/ (table = <<>> /\ names = <<>> /\ phones = <<>>)
          /\ censusAttributes' = table
          /\ abbrToNames' = names
          /\ abbrToCodes' = phones
          /\ countryCodesMap' = CreateCountryCodeMap(CountryCodes(cellsGraph), names, phones)
    /\ keys' = {}
    /\ attrs' = NoAttrs(blocksGraph)
    /\ todo' = NodeSeq(blocksGraph)
    /\ pc' = "attrloop"
    /\ UNCHANGED <<mapVars, relVars, nxVars, streamVars, prog, log, cellsMap, blocksMap, cellsGraph,
                   blocksGraph, missingBlocks>>

\* lines 177-197: one iteration of `for node in blocksGraph.nodes`
CountryAttrStep ==
    /\ prog = "get_block_graph"
    /\ pc = "attrloop"
    /\ todo # <<>>
    /\ LET node == Head(todo)
           countryCode == Digits(node[2])
       IN IF node[1] = "c"
          THEN IF countryCode \in DOMAIN countryCodesMap
               THEN /\ attrs' = [attrs EXCEPT ![node] =
                                    MergeAttrs(@, [key \in {"CountryCode", "CountryName"} |->
                                        IF key = "CountryCode" THEN Text(countryCode)
                                        ELSE countryCodesMap[countryCode]])]
                    /\ todo' = Tail(todo)
                    /\ pc' = pc
                    /\ UNCHANGED keys
               ELSE \* KeyError
                    /\ pc' = "raised"
                    /\ UNCHANGED <<attrs, todo, keys>>
          ELSE /\ IF node[2] \in DOMAIN censusAttributes
                  THEN /\ keys' = IF keys = {} THEN DOMAIN censusAttributes[node[2]] ELSE keys
                       /\ attrs' = [attrs EXCEPT ![node] = MergeAttrs(@, censusAttributes[node[2]])]
                  ELSE \* except KeyError: pass
                       UNCHANGED <<attrs, keys>>
               /\ todo' = Tail(todo)
               /\ pc' = pc
    /\ UNCHANGED <<mapVars, relVars, nxVars, streamVars, prog, log, cellsMap, blocksMap, cellsGraph,
                   blocksGraph, censusAttributes, missingBlocks, abbrToNames, abbrToCodes,
                   countryCodesMap>>

\* the attribute loop is over; line 200 starts the fill loop
CountryFillStart ==
    /\ prog = "get_block_graph"
    /\ pc = "attrloop"
    /\ todo = <<>>
    /\ todo' = NodeSeq(blocksGraph)
    /\ pc' = "fill"
    /\ UNCHANGED <<mapVars, relVars, nxVars, streamVars, attrVars, prog, log, cellsMap, blocksMap,
                   cellsGraph, blocksGraph>>

\* lines 200-206: one iteration of the fill loop; country nodes are skipped
CountryFillStep ==
    /\ prog = "get_block_graph"
    /\ pc = "fill"
    /\ todo # <<>>
    /\ LET node == Head(todo)
       IN IF node[1] = "c"
          THEN /\ todo' = Tail(todo)
               /\ pc' = pc
               /\ UNCHANGED attrs
          ELSE IF NoIdentifier(attrs[node])
          THEN /\ attrs' = [attrs EXCEPT ![node] = FillNone(@)]
               /\ pc' = "raised"
               /\ UNCHANGED todo
          ELSE /\ attrs' = [attrs EXCEPT ![node] = FillIdentifier(node, @)]
               /\ todo' = Tail(todo)
               /\ pc' = pc
    /\ UNCHANGED <<mapVars, relVars, nxVars, streamVars, prog, log, cellsMap, blocksMap, cellsGraph,
                   blocksGraph, censusAttributes, keys, missingBlocks, abbrToNames, abbrToCodes,
                   countryCodesMap>>

\* lines 208-212: the graph is written and returned
CountryFillEnd ==
    /\ prog = "get_block_graph"
    /\ pc = "fill"
    /\ todo = <<>>
    /\ pc' = "done"
    /\ UNCHANGED <<mapVars, relVars, nxVars, streamVars, attrVars, prog, log, blockVars>>

NextCountryAttributes ==
    \/ CountryAttrLoad \/ CountryAttrStep \/ CountryFillStart \/ CountryFillStep
    \/ CountryFillEnd

\* get_block_graph as a whole
SpecCountryGraph == InitCountries /\ [][NextCountries \/ NextCountryAttributes]_vars

NextAttributes == AddAttrStep \/ AddAttrWrite \/ FillStart \/ FillStep \/ FillCheck

SpecAttributes == InitAttributes /\ [][NextAttributes]_vars

(***************************************************************************)
(* milan_grid_census_codes_map.create_sezioni_censimento_millan_grid_map.  *)
(* The plane is a strip of regions, a sliver, a large one, a sliver and a  *)
(* large one; a polygon is a run of neighbouring regions.  Only features   *)
(* of geometry type Polygon are read.  A percentage is a fraction          *)
(* <<numerator, denominator>>.                                             *)
(***************************************************************************)
Atoms == 1 .. 4

AtomArea == <<1, 20000, 1, 20000>>

Polygons == {a .. b : <<a, b>> \in {p \in Atoms \X Atoms : p[1] <= p[2]}}

\* polygon.area
Area(p) == LET area(i) == AtomArea[i] IN SumSet(area, p)

\* shapely's a.overlaps(b): the polygons have interior points in common and
\* each has interior points outside the other
Overlaps(p, q) == p \cap q # {} /\ p \ q # {} /\ q \ p # {}

\* lines 105-116: the percentage, with what is effectively float error rounded
Percentage(intersectArea, area) ==
    IF intersectArea * 10000 < area THEN <<0, 1>>
    ELSE IF intersectArea * 10000 > 9999 * area THEN <<1, 1>>
    ELSE <<intersectArea, area>>

\* one if/elif chain for both percentages: the census percentage is rounded
\* only when the cell percentage was not
SectionsOneChain(milanPolygon) ==
    LET section(censusPolygon) ==
            IF Overlaps(milanPolygon.polygon, censusPolygon.polygon)
            THEN LET intersectArea == Area(milanPolygon.polygon \cap censusPolygon.polygon)
                     milanArea == Area(milanPolygon.polygon)
                     censusArea == Area(censusPolygon.polygon)
                     milanRounded == Percentage(intersectArea, milanArea) # <<intersectArea, milanArea>>
                 IN <<[censusAreaPercentage |->
                           IF milanRounded THEN <<intersectArea, censusArea>>
                           ELSE Percentage(intersectArea, censusArea),
                       milanAreaPercentage |-> Percentage(intersectArea, milanArea),
                       censusCodes |-> [SEZ2011 |-> censusPolygon.SEZ2011]]>>
            ELSE <<>>
    IN FlatMap(section, censusPolygons)

\* lines 94-123 for one cell polygon
Sections(milanPolygon) ==
    LET section(censusPolygon) ==
            IF Overlaps(milanPolygon.polygon, censusPolygon.polygon)
            THEN LET intersectArea == Area(milanPolygon.polygon \cap censusPolygon.polygon)
                 IN <<[censusAreaPercentage |->
                           Percentage(intersectArea, Area(censusPolygon.polygon)),
                       milanAreaPercentage |->
                           Percentage(intersectArea, Area(milanPolygon.polygon)),
                       censusCodes |-> [SEZ2011 |-> censusPolygon.SEZ2011]]>>
            ELSE <<>>
    IN FlatMap(section, censusPolygons)

\* the polygon lists the two geojson inputs give
PolygonLists(ids, field) ==
    UNION {{[i \in DOMAIN SortedSeq(S) |->
                IF field = "cellId"
                THEN [cellId |-> SortedSeq(S)[i], polygon |-> shape[SortedSeq(S)[i]]]
                ELSE [SEZ2011 |-> SortedSeq(S)[i], polygon |-> shape[SortedSeq(S)[i]]]] :
              shape \in [S -> Polygons]} : S \in SUBSET ids}

InitMapper ==
    /\ IdleAttr
    /\ IdleRel
    /\ IdleNx
    /\ IdleStream
    /\ prog = "create_sezioni_censimento_millan_grid_map"
    /\ pc = "loop"
    /\ log = <<>>
    /\ cellsMap = <<>>
    /\ blocksMap = <<>>
    /\ cellsGraph = EmptyGraph
    /\ blocksGraph = EmptyGraph
    /\ milanPolygons \in PolygonLists(Cells, "cellId")
    /\ censusPolygons \in PolygonLists(Blocks, "SEZ2011")
    /\ todo = milanPolygons

\* lines 90-123: one iteration of `for milanPolygon in milanPolygons`
MapCellStep ==
    /\ prog = "create_sezioni_censimento_millan_grid_map"
    /\ pc = "loop"
    /\ todo # <<>>
    /\ LET milanPolygon == Head(todo)
       IN grid' = [c \in DOMAIN grid \cup {milanPolygon.cellId} |->
                      IF c = milanPolygon.cellId THEN Sections(milanPolygon) ELSE grid[c]]
    /\ todo' = Tail(todo)
    /\ UNCHANGED <<mapVars, attrVars, relVars, nxVars, prog, pc, log, cellsMap, blocksMap,
                   cellsGraph, blocksGraph, milanNodes, graph, extracts, fileIdx, disk,
                   crashes, crashedAt>>

\* lines 128-136: the polygons are taken out of the records and grid is
\* written
MapWrite ==
    /\ prog = "create_sezioni_censimento_millan_grid_map"
    /\ pc = "loop"
    /\ todo = <<>>
    /\ pc' = "done"
    /\ UNCHANGED <<mapVars, attrVars, relVars, nxVars, prog, log, blockVars, streamVars>>

NextMapper == MapCellStep \/ MapWrite

SpecMapper == InitMapper /\ [][NextMapper]_vars

(***************************************************************************)
(* mi_to_mi_blocks.milan_grid_census_blocks_map_reverse, as the loop it    *)
(* is: cellsMap is cellMap, blocksMap is blockMap.                         *)
(***************************************************************************)
\* copy = {'cellID': cellId}; for key, val in block.items(): copy[key] = val
CopyOf(cellId, block) ==
    [cellID |-> cellId,
     SEZ2011 |-> block.SEZ2011,
     censusAreaPercentage |-> block.censusAreaPercentage,
     milanAreaPercentage |-> block.milanAreaPercentage]

\* blockMap[...] = [copy]: the list of the block is replaced
AppendCopyOverwrite(blockMap, cellId, block) ==
    [b \in DOMAIN blockMap \cup {block.SEZ2011} |->
        IF b = block.SEZ2011 THEN <<CopyOf(cellId, block)>> ELSE blockMap[b]]

\* blockMap[block['censusCodes']['SEZ2011']].append(copy), blockMap being a
\* defaultdict(list)
AppendCopy(blockMap, cellId, block) ==
    [b \in DOMAIN blockMap \cup {block.SEZ2011} |->
        IF b = block.SEZ2011
        THEN (IF b \in DOMAIN blockMap THEN blockMap[b] ELSE <<>>) \o <<CopyOf(cellId, block)>>
        ELSE blockMap[b]]

RECURSIVE ReverseCell(_, _, _)
\* `for block in blocks`
ReverseCell(blockMap, cellId, blocks) ==
    IF blocks = <<>> THEN blockMap
    ELSE ReverseCell(AppendCopy(blockMap, cellId, Head(blocks)), cellId, Tail(blocks))

InitReverse ==
    /\ IdleMap
    /\ IdleAttr
    /\ IdleRel
    /\ IdleStream
    /\ IdleNx
    /\ prog = "milan_grid_census_blocks_map_reverse"
    /\ pc = "loop"
    /\ cellsMap \in CellMaps
    /\ blocksMap = <<>>
    /\ cellsGraph = EmptyGraph
    /\ blocksGraph = EmptyGraph
    /\ todo = SortedSeq(DOMAIN cellsMap)
    /\ log = <<>>

\* lines 337-350: one iteration of `for cellId, blocks in cellMap.items()`;
\* a cell with no blocks is skipped
ReverseCellStep ==
    /\ prog = "milan_grid_census_blocks_map_reverse"
    /\ pc = "loop"
    /\ todo # <<>>
    /\ blocksMap' = ReverseCell(blocksMap, Head(todo), cellsMap[Head(todo)])
    /\ todo' = Tail(todo)
    /\ UNCHANGED <<mapVars, attrVars, relVars, nxVars, streamVars, prog, pc, log, cellsMap,
                   cellsGraph, blocksGraph>>

\* lines 352-353: blockMap is written
ReverseWrite ==
    /\ prog = "milan_grid_census_blocks_map_reverse"
    /\ pc = "loop"
    /\ todo = <<>>
    /\ pc' = "done"
    /\ UNCHANGED <<mapVars, attrVars, relVars, nxVars, streamVars, prog, log, blockVars>>

NextReverse == ReverseCellStep \/ ReverseWrite

SpecReverse == InitReverse /\ [][NextReverse]_vars

Init ==
    \/ InitBlocks \/ InitCountries \/ InitStream \/ InitNx \/ InitAttributes \/ InitMapper
    \/ InitReverse

Next ==
    \/ NextBlocks \/ NextCountries \/ NextCountryAttributes \/ NextStream \/ NextNx
    \/ NextAttributes \/ NextMapper \/ NextReverse

Spec == Init /\ [][Next]_vars

(***************************************************************************)
(* Properties of create_census_blocks_graph.                               *)
(***************************************************************************)
BlocksDone == prog = "create_census_blocks_graph" /\ pc = "done"

\* the percentage `field` of the forward record of cell c for block b
ForwardPct(c, b, field) ==
    LET k == CHOOSE j \in DOMAIN cellsMap[c] : cellsMap[c][j].SEZ2011 = b
    IN cellsMap[c][k][field]

\* a contribution is identified by the source edge and the blocks its two
\* endpoints are projected to, whichever endpoint the traversal started from
ContributionId(c) ==
    IF c.cellFrom < c.cellTo THEN <<c.cellFrom, c.cellTo, c.u, c.v>>
    ELSE IF c.cellFrom > c.cellTo THEN <<c.cellTo, c.cellFrom, c.v, c.u>>
    ELSE IF c.u[2] <= c.v[2] THEN <<c.cellFrom, c.cellTo, c.u, c.v>>
    ELSE <<c.cellFrom, c.cellTo, c.v, c.u>>

TimesAdded(id) == Cardinality({i \in DOMAIN log : ContributionId(log[i]) = id})

\* the distinct contributions that land on the target edge e, as
\* <<id, weight>> pairs
DistinctOn(e) ==
    {<<ContributionId(log[i]), log[i].weight>> :
        i \in {j \in DOMAIN log : EdgeKey(log[j].u, log[j].v) = e}}

SecondOf(p) == p[2]

\* C1: every contribution is added to its target edge exactly twice during
\* the traversal, so after the halving every target edge weight is the sum
\* of its distinct contributions, each counted once (self-loops of the
\* source graph included).
C1_EachContributionTwice ==
    BlocksDone =>
        /\ \A i \in DOMAIN log : TimesAdded(ContributionId(log[i])) = 2
        /\ \A e \in DOMAIN blocksGraph.edges :
              blocksGraph.edges[e] = SumSet(SecondOf, DistinctOn(e))

\* the source graph is one edge between the two distinct cells a and b, each of
\* which has exactly one overlap record, into distinct blocks
OneEdgeOneRecordEach(a, b) ==
    /\ a # b
    /\ DOMAIN cellsGraph.edges = {EdgeKey(IntNode(a), IntNode(b))}
    /\ Len(cellsMap[a]) = 1
    /\ Len(cellsMap[b]) = 1
    /\ cellsMap[a][1].SEZ2011 # cellsMap[b][1].SEZ2011
    /\ \A c \in Cells \ {a, b} : cellsMap[c] = <<>>

\* the target graph has the single edge between the blocks of a and b, and
\* its weight is the source weight
OneEdgeOfSourceWeight(a, b) ==
    LET e == EdgeKey(IntNode(cellsMap[a][1].SEZ2011), IntNode(cellsMap[b][1].SEZ2011))
    IN /\ DOMAIN blocksGraph.edges = {e}
       /\ blocksGraph.edges[e] = Den * cellsGraph.edges[EdgeKey(IntNode(a), IntNode(b))]

\* C2 as stated: one source edge of weight W between two cells whose single
\* record has milanAreaPercentage = 1 gives one target edge of weight W,
\* whatever the block-side percentages are.
C2_ConservationCellSide ==
    BlocksDone =>
        \A a, b \in Cells :
            (/\ OneEdgeOneRecordEach(a, b)
             /\ cellsMap[a][1].milanAreaPercentage = Full
             /\ cellsMap[b][1].milanAreaPercentage = Full)
            => OneEdgeOfSourceWeight(a, b)

\* C2 amended: one source edge of weight W between two cells whose single
\* record has censusAreaPercentage = 1 gives one target edge of weight W,
\* whatever the cell-side percentages are.
C2_ConservationBlockSide ==
    BlocksDone =>
        \A a, b \in Cells :
            (/\ OneEdgeOneRecordEach(a, b)
             /\ cellsMap[a][1].censusAreaPercentage = Full
             /\ cellsMap[b][1].censusAreaPercentage = Full)
            => OneEdgeOfSourceWeight(a, b)

C2_Witness ==
    /\ BlocksDone
    /\ \E a, b \in Cells :
          /\ OneEdgeOneRecordEach(a, b)
          /\ cellsMap[a][1].censusAreaPercentage = Full
          /\ cellsMap[b][1].censusAreaPercentage = Full
          /\ cellsMap[a][1].milanAreaPercentage # Full
          /\ OneEdgeOfSourceWeight(a, b)

\* C3 as stated: every contribution is the source edge weight times the
\* cell-side percentage (intersection / cell area) of the record
\* cellFrom -> blockFrom times the block-side percentage (intersection /
\* block area) of the record cellTo -> blockTo.
C3_ContributionCellSideFrom ==
    prog = "create_census_blocks_graph" =>
        \A i \in DOMAIN log :
            log[i].weight =
                2 * cellsGraph.edges[EdgeKey(IntNode(log[i].cellFrom), IntNode(log[i].cellTo))]
                  * ForwardPct(log[i].cellFrom, log[i].u[2], "milanAreaPercentage")
                  * ForwardPct(log[i].cellTo, log[i].v[2], "censusAreaPercentage")

\* C3 amended: every contribution is the source edge weight times the
\* block-side percentage of the record cellFrom -> blockFrom times the
\* block-side percentage of the record cellTo -> blockTo.
C3_ContributionBlockSideBoth ==
    prog = "create_census_blocks_graph" =>
        \A i \in DOMAIN log :
            log[i].weight =
                2 * cellsGraph.edges[EdgeKey(IntNode(log[i].cellFrom), IntNode(log[i].cellTo))]
                  * ForwardPct(log[i].cellFrom, log[i].u[2], "censusAreaPercentage")
                  * ForwardPct(log[i].cellTo, log[i].v[2], "censusAreaPercentage")

C3_Witness ==
    /\ prog = "create_census_blocks_graph"
    /\ \E i \in DOMAIN log :
          /\ ForwardPct(log[i].cellFrom, log[i].u[2], "milanAreaPercentage")
                # ForwardPct(log[i].cellFrom, log[i].u[2], "censusAreaPercentage")
          /\ ForwardPct(log[i].cellTo, log[i].v[2], "milanAreaPercentage")
                # ForwardPct(log[i].cellTo, log[i].v[2], "censusAreaPercentage")

\* the boundary scenario: cells a and b each have one record, into the same
\* block, with every fraction one half, and the source graph is the single
\* edge a-b of weight 100
HalfHalfScenario(a, b) ==
    /\ a # b
    /\ DOMAIN cellsGraph.edges = {EdgeKey(IntNode(a), IntNode(b))}
    /\ cellsGraph.edges[EdgeKey(IntNode(a), IntNode(b))] = 100
    /\ Len(cellsMap[a]) = 1
    /\ Len(cellsMap[b]) = 1
    /\ cellsMap[a][1].SEZ2011 = cellsMap[b][1].SEZ2011
    /\ \A c \in {a, b} :
          /\ 2 * cellsMap[c][1].censusAreaPercentage = PScale
          /\ 2 * cellsMap[c][1].milanAreaPercentage = PScale
    /\ \A c \in Cells \ {a, b} : cellsMap[c] = <<>>

SelfLoopOf(a) == EdgeKey(IntNode(cellsMap[a][1].SEZ2011), IntNode(cellsMap[a][1].SEZ2011))

\* C4 as stated: the scenario ends with the single edge X-X of weight 12.5.
C4_SelfLoopTwelveAndHalf ==
    BlocksDone =>
        \A a, b \in Cells :
            HalfHalfScenario(a, b) =>
                /\ DOMAIN blocksGraph.edges = {SelfLoopOf(a)}
                /\ 2 * blocksGraph.edges[SelfLoopOf(a)] = 25 * Den

\* C4 amended: the scenario ends with the single edge X-X of weight 25 (the
\* contribution 100 * 0.5 * 0.5 = 25 is added once from each endpoint of the
\* source edge, and the sum 50 is halved).
C4_SelfLoopTwentyFive ==
    BlocksDone =>
        \A a, b \in Cells :
            HalfHalfScenario(a, b) =>
                /\ DOMAIN blocksGraph.edges = {SelfLoopOf(a)}
                /\ blocksGraph.edges[SelfLoopOf(a)] = 25 * Den
                /\ Len(log) = 2
                /\ \A i \in DOMAIN log : log[i].weight = 25 * Den

C4_Witness ==
    /\ BlocksDone
    /\ \E a, b \in Cells : HalfHalfScenario(a, b)

(***************************************************************************)
(* Properties of get_block_graph.                                          *)
(***************************************************************************)
CountryEdgesDone == prog = "get_block_graph" /\ pc = "attributes"

\* the cells that have an overlap record for block b
CellsOf(b) == {c \in Cells : \E k \in DOMAIN cellsMap[c] : cellsMap[c][k].SEZ2011 = b}

\* the cells of block b that have an edge to country k in the source graph
LinkedCells(b, k) == {c \in CellsOf(b) : HasEdge(cellsGraph, MNode(c), CNode(k))}

\* the sum, over the cells of block b linked to country k, of the cell's edge
\* weight times the percentage `field` of the record cell -> block
ExpectedCountryWeight(b, k, field) ==
    LET term(c) == cellsGraph.edges[EdgeKey(MNode(c), CNode(k))] * ForwardPct(c, b, field)
    IN SumSet(term, LinkedCells(b, k))

CountryVisits(b, c, k) ==
    Cardinality({i \in DOMAIN log :
        log[i].u = IntNode(b) /\ log[i].cellFrom = c /\ log[i].v = CNode(k)})

CountryEdgesAre(field) ==
    \A b \in Blocks : \A k \in Countries :
        /\ HasEdge(blocksGraph, IntNode(b), CNode(k)) <=> LinkedCells(b, k) # {}
        /\ HasEdge(blocksGraph, IntNode(b), CNode(k)) =>
              blocksGraph.edges[EdgeKey(IntNode(b), CNode(k))]
                  = ExpectedCountryWeight(b, k, field)
        /\ \A c \in Cells :
              CountryVisits(b, c, k) = IF c \in LinkedCells(b, k) THEN 1 ELSE 0

\* C5 as stated: the weight of every edge (block, country) is the sum over
\* the block's cells of the cell-country weight times the cell-side
\* percentage (intersection / cell area), each cell-country edge visited once
\* per overlap record, with no halving.
C5_CountryWeightCellSide == CountryEdgesDone => CountryEdgesAre("milanAreaPercentage")

\* C5 amended: the weight of every edge (block, country) is the sum over the
\* block's cells of the cell-country weight times the block-side percentage
\* (censusAreaPercentage, intersection / block area), each cell-country edge
\* visited once per overlap record, with no halving.
C5_CountryWeightBlockSide == CountryEdgesDone => CountryEdgesAre("censusAreaPercentage")

C5_Witness ==
    /\ CountryEdgesDone
    /\ \E b \in Blocks : \E k \in Countries :
          /\ Cardinality(LinkedCells(b, k)) = 2
          /\ HasEdge(blocksGraph, IntNode(b), CNode(k))
          /\ ExpectedCountryWeight(b, k, "censusAreaPercentage")
                # ExpectedCountryWeight(b, k, "milanAreaPercentage")

(***************************************************************************)
(* Properties of the edge accumulation.                                    *)
(***************************************************************************)
\* the sum of the contributions made to the graph named g for the unordered
\* pair a, b
PairSum(g, a, b) ==
    LET term(c) ==
            IF c.g = g /\ ((c.u = a /\ c.v = b) \/ (c.u = b /\ c.v = a)) THEN c.weight ELSE 0
    IN FloatSum(term, log)

\* the unordered pairs the graph named g received a contribution for
LoggedPairs(g) == {{log[i].u, log[i].v} : i \in {j \in DOMAIN log : log[j].g = g}}

\* G holds one edge per pair that received a contribution, reachable in both
\* directions, and scale times its weight is the sum of the contributions
EdgesAreSums(G, g, scale) ==
    /\ Cardinality(DOMAIN G.edges) = Cardinality(LoggedPairs(g))
    /\ \A i \in DOMAIN log :
          log[i].g = g =>
              /\ HasEdge(G, log[i].u, log[i].v)
              /\ HasEdge(G, log[i].v, log[i].u)
              /\ scale * Weight(G, log[i].u, log[i].v) = PairSum(g, log[i].u, log[i].v)
              /\ scale * Weight(G, log[i].v, log[i].u) = PairSum(g, log[i].u, log[i].v)

\* C6: in the graphs built by aggregate_dates, json_to_networkx,
\* create_census_blocks_graph and get_block_graph there is one edge per
\* unordered node pair that received contributions, contributions to (u, v)
\* and to (v, u) land on it, and its weight is the sum of all of them (twice
\* the weight once create_census_blocks_graph has halved the weights).
C6_OneEdgePerPairSummed ==
    /\ prog = "create_census_blocks_graph" =>
          EdgesAreSums(blocksGraph, "blocksGraph", IF pc = "done" THEN 2 ELSE 1)
    /\ prog = "get_block_graph" => EdgesAreSums(blocksGraph, "blocksGraph", 1)
    /\ prog = "aggregate_dates" => EdgesAreSums(graph, "graph", 1)
    /\ prog = "json_to_networkx" =>
          /\ EdgesAreSums(graphCall, "graphCall", 1)
          /\ EdgesAreSums(graphSMS, "graphSMS", 1)
          /\ EdgesAreSums(graphInternet, "graphInternet", 1)

C6_Witness ==
    /\ prog = "create_census_blocks_graph"
    /\ pc = "loop"
    /\ \E i, j \in DOMAIN log :
          /\ log[i].u # log[i].v
          /\ log[j].u = log[i].v
          /\ log[j].v = log[i].u
          /\ Weight(blocksGraph, log[i].u, log[i].v) > log[i].weight

(***************************************************************************)
(* Properties of the streaming runs.                                       *)
(***************************************************************************)
Streaming == prog \in {"aggregate_dates", "collect_json"}

RECURSIVE AggregateUpTo(_)
\* the graph of an uninterrupted aggregate_dates run over the first k extracts
AggregateUpTo(k) ==
    IF k = 0 THEN [nodes |-> {IntNode(c) : c \in MilanNodes(grid)}, edges |-> <<>>]
    ELSE AggregateDict(AggregateUpTo(k - 1), MilanNodes(grid), extracts[k])

StreamUpTo(k) == IF prog = "aggregate_dates" THEN AggregateUpTo(k) ELSE CollectUpTo(k)

CheckpointIs(G) == disk.state = "complete" /\ disk.content = G

\* C7: the node universe of aggregate_dates is exactly the set of cells with
\* at least one overlap record; a cell with exactly one census block is in it.
C7_UniverseIsCoveredCells ==
    (prog = "aggregate_dates" /\ pc \in {"iter", "process", "write", "dump", "done"}) =>
        /\ milanNodes = {c \in Cells : Len(grid[c]) >= 1}
        /\ graph.nodes = {IntNode(c) : c \in {d \in Cells : Len(grid[d]) >= 1}}

\* C8: once an extract has been processed and written, the checkpoint is the
\* graph in memory, which is the accumulation of the extracts processed so
\* far; while extract k+1 is parsed, and after a termination or an abort at
\* that point, the checkpoint is the accumulation of the extracts 1..k.
C8_CheckpointReflectsProcessed ==
    Streaming =>
        /\ (pc = "iter" /\ fileIdx >= 1) =>
              CheckpointIs(graph) /\ graph = StreamUpTo(fileIdx)
        /\ (pc \in {"loaded", "process", "raised"} /\ fileIdx >= 1) =>
              CheckpointIs(StreamUpTo(fileIdx))
        /\ (pc = "crashed" /\ crashedAt.pc \in {"loaded", "process"} /\ crashedAt.k >= 1) =>
              CheckpointIs(StreamUpTo(crashedAt.k))

C8_Witness ==
    /\ Streaming
    /\ pc = "crashed"
    /\ crashedAt.pc = "process"
    /\ crashedAt.k >= 1
    /\ Len(extracts) > crashedAt.k
    /\ CheckpointIs(StreamUpTo(crashedAt.k))
    /\ StreamUpTo(crashedAt.k) # StreamUpTo(0)
    /\ StreamUpTo(crashedAt.k + 1) # StreamUpTo(crashedAt.k)

\* C9: at every instant the checkpoint file is a complete snapshot (or does
\* not exist yet); a truncated or partially written file is never there.
C9_CheckpointNeverPartial == Streaming => disk.state \in {"absent", "complete"}

RECURSIVE AggregateInOrder(_, _)
\* the graph of an uninterrupted run that processes the extracts in the
\* order p[1], p[2], ..., p[k]
AggregateInOrder(p, k) ==
    IF k = 0 THEN [nodes |-> {IntNode(c) : c \in MilanNodes(grid)}, edges |-> <<>>]
    ELSE AggregateDict(AggregateInOrder(p, k - 1), MilanNodes(grid), extracts[p[k]])

Orders == Permutations(1 .. Len(extracts))

\* the extracts that hold an entry for the edge e between universe cells
ExtractsWith(e) ==
    {k \in DOMAIN extracts :
        \E q \in DOMAIN extracts[k] :
            /\ q[1] \in MilanNodes(grid)
            /\ q[2] \in MilanNodes(grid)
            /\ {IntNode(q[1]), IntNode(q[2])} = e}

\* the sum, in exact arithmetic, of the entries of all extracts for e
ExactSum(e) ==
    LET entry(k) ==
            LET q == CHOOSE x \in DOMAIN extracts[k] : {IntNode(x[1]), IntNode(x[2])} = e
            IN extracts[k][q]
    IN SumSet(entry, ExtractsWith(e))

AggregateDone == prog = "aggregate_dates" /\ pc = "done"

\* C11 as stated: the final graph of aggregate_dates (nodes, edges and every
\* weight) is the same for every order in which the extracts are processed.
C11_OrderIrrelevant ==
    AggregateDone => \A p \in Orders : AggregateInOrder(p, Len(extracts)) = graph

\* C11 amended: for every order the node set and the edge set are the same;
\* the weight of an edge is the same, namely the exact sum of its entries,
\* whenever that sum is at most 2^53 (no addition rounds); beyond that the
\* weights of two orders differ by no more than one rounding step per
\* addition.
C11_OrderIrrelevantUpToRounding ==
    AggregateDone =>
        \A p \in Orders :
            LET G == AggregateInOrder(p, Len(extracts))
            IN /\ G.nodes = graph.nodes
               /\ DOMAIN G.edges = DOMAIN graph.edges
               /\ DOMAIN G.edges = {e \in SUBSET graph.nodes : ExtractsWith(e) # {}}
               /\ \A e \in DOMAIN G.edges :
                     /\ ExactSum(e) <= Big => G.edges[e] = ExactSum(e)
                     /\ G.edges[e] - graph.edges[e] <= Len(extracts) * Ulp(ExactSum(e))
                     /\ graph.edges[e] - G.edges[e] <= Len(extracts) * Ulp(ExactSum(e))

C11_Witness ==
    /\ AggregateDone
    /\ Len(extracts) = 3
    /\ extracts[1] # extracts[2]
    /\ \E e \in DOMAIN graph.edges :
          /\ Cardinality(ExtractsWith(e)) >= 2
          /\ ExactSum(e) <= Big
          /\ graph.edges[e] = ExactSum(e)
          /\ \A p \in Orders : AggregateInOrder(p, 3).edges[e] = graph.edges[e]

(***************************************************************************)
(* C12: the parsed structures held in memory.                              *)
(***************************************************************************)
\* the extracts of which a parsed structure is referenced
HeldExtracts == {h.of : h \in held}

\* C12: in relation_graph_to_json and aggregate_dates the parsed structures
\* of at most one extract are held at any point; those of extract k are
\* released before extract k+1 starts being loaded.
C12_OneExtractHeld ==
    prog \in {"relation_graph_to_json", "aggregate_dates"} => Cardinality(HeldExtracts) <= 1

(***************************************************************************)
(* C13: the records validate rejects.                                      *)
(***************************************************************************)
Parseable(s) == s \in DOMAIN NumeralValue

\* an 8-field record whose cell id or country code is no integer, or with a
\* magnitude field that is neither empty nor a float
Unparseable(tokens) ==
    /\ Len(tokens) = 8
    /\ \/ ~Parseable(tokens[1])
       \/ ~Parseable(tokens[3])
       \/ \E i \in 4 .. 8 : tokens[i] # "" /\ ~Parseable(tokens[i])

\* C13: validate raises ValueError for every 8-field record with an
\* unparseable cell id, country code or non-empty magnitude; collect_json
\* never gets through a file that holds such a record, and never adds one to
\* the graph.
C13_UnparseableRejected ==
    prog = "collect_json" =>
        /\ \A f \in DOMAIN extracts : \A j \in DOMAIN extracts[f] :
              Unparseable(extracts[f][j]) => ValidateRaises(extracts[f][j])
        /\ pc \in {"write", "dump"} =>
              \A j \in DOMAIN extracts[fileIdx + 1] : ~Unparseable(extracts[fileIdx + 1][j])
        /\ pc \in {"iter", "process", "write", "dump", "done", "raised"} =>
              \A x \in DOMAIN graph : x[1].k = "num" /\ x[2].k = "num"
(***************************************************************************)
(* C14.  After add_census_attributes followed by                           *)
(* census_block_graph_fill_in_holes, and after the attribute pass of       *)
(* get_block_graph, every block node has the same attribute key set, that  *)
(* of the first node seen with attributes, and every block node without a  *)
(* record in the census JSON has every attribute None except SEZ2011,      *)
(* which is the node itself.                                               *)
(***************************************************************************)
BlockNodes == {n \in blocksGraph.nodes : n[1] = "int"}

FillFinished == prog \in {"census_block_graph_fill_in_holes", "get_block_graph"} /\ pc = "done"

NoRecord(n) == n[2] \notin DOMAIN censusAttributes

C14_UniformKeySets ==
    FillFinished =>
        /\ \A n \in BlockNodes : DOMAIN attrs[n] = keys
        /\ \A n \in BlockNodes : NoRecord(n) =>
               \A key \in DOMAIN attrs[n] :
                   attrs[n][key] = IF key = "SEZ2011" THEN Num(n[2]) ELSE PyNone

(***************************************************************************)
(* C15.  The fill pass never raises, and when it is over every block node  *)
(* has an identifier SEZ2011 that is not None.                             *)
(***************************************************************************)
FillRunning == prog \in {"census_block_graph_fill_in_holes", "get_block_graph"} /\ pc = "fill"

\* the fill loop stopped at a node (the length check comes after the loop)
FillLoopRaised ==
    /\ prog \in {"census_block_graph_fill_in_holes", "get_block_graph"}
    /\ pc = "raised"
    /\ todo # <<>>
    /\ Head(todo)[1] = "int"

C15_IdentifierNeverAbsent ==
    /\ ~FillLoopRaised
    /\ FillFinished =>
           \A n \in BlockNodes : "SEZ2011" \in DOMAIN attrs[n] /\ attrs[n]["SEZ2011"] # PyNone

(***************************************************************************)
(* C16.  When add_census_attributes has visited every node, the missing    *)
(* set is exactly the nodes without a record in the census JSON: a node    *)
(* with a record has the attributes of its record and is not in the set, a *)
(* node without one is in the set, is still in the graph and has no        *)
(* attributes; the edges are those of the graph that was loaded.           *)
(***************************************************************************)
AddFinished == prog = "add_census_attributes" /\ pc = "added"

\* AddAttrStep changes neither the nodes nor the edges of the graph
GraphUntouched == [][prog = "add_census_attributes" => blocksGraph' = blocksGraph]_vars

MissingSetExact ==
    AddFinished =>
        /\ missingBlocks = {n[2] : n \in {x \in blocksGraph.nodes : NoRecord(x)}}
        /\ \A n \in blocksGraph.nodes :
               IF NoRecord(n)
               THEN attrs[n] = <<>>
               ELSE /\ attrs[n] = censusAttributes[n[2]]
                    /\ n[2] \notin missingBlocks

\* C16: the missing set is exact at the end of add_census_attributes, and
\* the graph keeps its nodes and edges
C16_MissingSetReported == []MissingSetExact /\ GraphUntouched

C16_Witness ==
    /\ AddFinished
    /\ \E n \in blocksGraph.nodes : NoRecord(n)
    /\ \E n \in blocksGraph.nodes : ~NoRecord(n)
    /\ blocksGraph.edges # <<>>

(***************************************************************************)
(* C17.  In get_block_graph every country node ends with exactly the       *)
(* attributes CountryCode (its code without the prefix) and CountryName.   *)
(* As stated: when names.json holds no name for the code, CountryName is   *)
(* None.  As the code does it: CountryName is the name when names.json has *)
(* one for the abbreviation of the code, the abbreviation itself when      *)
(* phone.json knows the code but names.json has no name for it, and None   *)
(* only when phone.json does not know the code; the pass never stops at a  *)
(* country node.                                                           *)
(***************************************************************************)
CountryNodes == {n \in blocksGraph.nodes : n[1] = "c"}

\* two attribute values are the same Python value
SameValue(x, y) == x.k = y.k /\ (x.k = "none" \/ x.v = y.v)

\* the attribute loop of get_block_graph is over
CountryAttrsSet == prog = "get_block_graph" /\ pc \in {"fill", "done"}

AbbrsOf(code) == {a \in DOMAIN abbrToCodes : code \in CodesOf(abbrToCodes[a])}

\* names.json has a display name for the country of the code
HasDisplayName(code) == \E a \in AbbrsOf(code) : a \in DOMAIN abbrToNames

ExactlyCodeAndName(n) ==
    /\ DOMAIN attrs[n] = {"CountryCode", "CountryName"}
    /\ attrs[n]["CountryCode"] = Text(Digits(n[2]))

RaisedAtCountryNode ==
    /\ prog = "get_block_graph"
    /\ pc = "raised"
    /\ log # <<>> \/ blocksGraph.nodes # {}
    /\ todo # <<>>
    /\ Head(todo) \in CountryNodes

RECURSIVE Flatten(_)
Flatten(files) == IF files = <<>> THEN <<>> ELSE Head(files) \o Flatten(Tail(files))

\* field i of the line is a number other than zero
PresentNonzero(line, i) == line[i] \in DOMAIN NumeralValue /\ NumeralValue[line[i]] # 0

\* the line is a record of the connection kept under key
OfConnection(line, key) ==
    /\ PyEq(IsInt(line[1]), key[1])
    /\ PyEq(IsInt(line[3]), key[2])

Occurrences(flat, key, i) ==
    {j \in DOMAIN flat : OfConnection(flat[j], key) /\ PresentNonzero(flat[j], i)}

OccurrenceSum(flat, key, i) ==
    LET value(j) == NumeralValue[flat[j][i]] IN SumSet(value, Occurrences(flat, key, i))

DirectionFields ==
    <<[sum |-> "smsIn", count |-> "smsInCount", field |-> 4],
      [sum |-> "smsOut", count |-> "smsOutCount", field |-> 5],
      [sum |-> "callIn", count |-> "callInCount", field |-> 6],
      [sum |-> "callOut", count |-> "callOutCount", field |-> 7]>>

\* the counts and sums of every complete run of collect_json
CountsAreOccurrences ==
    \A files \in {f \in CollectExtractSeqs : FilesAreValid(f)} :
        LET G == CollectAll(<<>>, files)
            flat == Flatten(files)
        IN \A key \in DOMAIN G : \A d \in DOMAIN DirectionFields :
               LET dir == DirectionFields[d]
               IN /\ G[key][dir.count] = Cardinality(Occurrences(flat, key, dir.field))
                  /\ G[key][dir.sum] = OccurrenceSum(flat, key, dir.field)

\* w (over CDen) is sum / count, or nothing when the count is zero
IsAverage(w, sum, count) == IF count = 0 THEN w = 0 ELSE w * count = sum * CDen

MaxWeight == 4 * MaxLines * CDen

IsDirectionalSum(weight, sumIn, countIn, sumOut, countOut) ==
    \E wIn, wOut \in 0 .. MaxWeight :
        /\ IsAverage(wIn, sumIn, countIn)
        /\ IsAverage(wOut, sumOut, countOut)
        /\ weight = wIn + wOut

NxFinished == prog = "json_to_networkx" /\ pc = "done"

ConnectionEdge(x) == EdgeKey(MNode(JsonKey(x[1])), CNode(JsonKey(x[2])))

C18_WeightIsSumOfAverages ==
    /\ CountsAreOccurrences
    /\ NxFinished =>
           \A x \in DOMAIN graphDict :
               LET c == graphDict[x]
               IN /\ ConnectionEdge(x) \in DOMAIN graphCall.edges
                  /\ ConnectionEdge(x) \in DOMAIN graphSMS.edges
                  /\ IsDirectionalSum(graphCall.edges[ConnectionEdge(x)],
                                      c.callIn, c.callInCount, c.callOut, c.callOutCount)
                  /\ IsDirectionalSum(graphSMS.edges[ConnectionEdge(x)],
                                      c.smsIn, c.smsInCount, c.smsOut, c.smsOutCount)

\* a finished run with a connection of two lines whose incoming SMS value is
\* nonzero and whose outgoing SMS value is present and zero
C18_Witness ==
    /\ NxFinished
    /\ \E x \in DOMAIN graphDict :
          /\ graphDict[x].smsInCount = 2
          /\ graphDict[x].smsOutCount = 0
          /\ graphDict[x].smsOut = 0
          /\ graphSMS.edges[ConnectionEdge(x)] * 2 = graphDict[x].smsIn * CDen

(***************************************************************************)
(* C19.  The overlap mapper emits exactly one record for every (cell,      *)
(* census block) pair whose intersection has positive area, also when one  *)
(* polygon lies inside the other (a cell a block covers gets a record with *)
(* milanAreaPercentage 1), and none for a pair with empty intersection;    *)
(* every cell has an entry in the output.                                  *)
(***************************************************************************)
MapperFinished == prog = "create_sezioni_censimento_millan_grid_map" /\ pc = "done"

RecordsOf(cellId, SEZ2011) ==
    {k \in DOMAIN grid[cellId] : grid[cellId][k].censusCodes.SEZ2011 = SEZ2011}

C19_RecordPerPositiveIntersection ==
    MapperFinished =>
        \A i \in DOMAIN milanPolygons :
            LET cell == milanPolygons[i]
            IN /\ cell.cellId \in DOMAIN grid
               /\ \A j \in DOMAIN censusPolygons :
                      LET block == censusPolygons[j]
                          records == RecordsOf(cell.cellId, block.SEZ2011)
                      IN /\ Cardinality(records) =
                               IF Area(cell.polygon \cap block.polygon) > 0 THEN 1 ELSE 0
                         /\ (cell.polygon \subseteq block.polygon) =>
                               \A k \in records :
                                   grid[cell.cellId][k].milanAreaPercentage = <<1, 1>>

(***************************************************************************)
(* C20.  From the moment aggregate_dates has built its node universe, the  *)
(* node set of the graph is that universe (also the cells without any      *)
(* edge), and the entries of an extract that have an end outside the       *)
(* universe change no node, no edge and no weight: an edge that is new or  *)
(* has a new weight after an extract comes from an entry with both ends    *)
(* in the universe.                                                        *)
(***************************************************************************)
UniverseFixed ==
    prog = "aggregate_dates" /\ pc \in {"iter", "loaded", "process", "write", "dump", "done"}

NodeSetIsUniverse == UniverseFixed => graph.nodes = {IntNode(c) : c \in milanNodes}

UniverseKept == UniverseFixed /\ pc' # "crashed" => milanNodes' = milanNodes

InsideEntries(dictionary) ==
    {p \in DOMAIN dictionary : p[1] \in milanNodes /\ p[2] \in milanNodes}

OutsideEntries(dictionary) == DOMAIN dictionary \ InsideEntries(dictionary)

OnlyInsideEntriesCount ==
    (prog = "aggregate_dates" /\ pc = "process" /\ pc' = "write") =>
        /\ graph'.nodes = graph.nodes
        /\ DOMAIN graph.edges \subseteq DOMAIN graph'.edges
        /\ \A e \in DOMAIN graph'.edges :
               (e \notin DOMAIN graph.edges \/ graph'.edges[e] # graph.edges[e]) =>
                   \E p \in InsideEntries(extracts[fileIdx + 1]) :
                       EdgeKey(IntNode(p[1]), IntNode(p[2])) = e

C20_NodeSetIsUniverse ==
    /\ []NodeSetIsUniverse
    /\ [][UniverseKept /\ OnlyInsideEntriesCount]_vars

\* an extract with an entry inside and an entry outside the universe has
\* been processed: the first is an edge, the second is not
C20_Witness ==
    /\ prog = "aggregate_dates"
    /\ pc = "write"
    /\ \E p \in InsideEntries(extracts[fileIdx + 1]) : HasEdge(graph, IntNode(p[1]), IntNode(p[2]))
    /\ \E p \in OutsideEntries(extracts[fileIdx + 1]) : ~HasEdge(graph, IntNode(p[1]), IntNode(p[2]))

(***************************************************************************)
(* C21.  When a malformed line ends collect_json or relation_graph_to_json *)
(* in extract k, what is on disk holds nothing of extract k: the JSON of   *)
(* collect_json is the accumulation of the extracts 1..k-1, all of them    *)
(* parsed to the end (there is no file when k = 1), and                    *)
(* relation_graph_to_json has written one complete file for each of the    *)
(* extracts 1..k-1 and none for extract k.                                 *)
(***************************************************************************)
CollectAborted == prog = "collect_json" /\ pc = "raised"

RelationAborted == prog = "relation_graph_to_json" /\ pc = "raised"

\* collect_json parses extract i to its end
CollectedToEnd(i) == CollectFile(CollectUpTo(i - 1), extracts[i]).ok

C21_AbortedExtractNotPersisted ==
    /\ CollectAborted =>
           /\ ~CollectedToEnd(fileIdx + 1)
           /\ \A i \in 1 .. fileIdx : CollectedToEnd(i)
           /\ IF fileIdx = 0 THEN disk = NoFile ELSE CheckpointIs(CollectUpTo(fileIdx))
    /\ RelationAborted =>
           /\ ~RelFile(<<>>, extracts[fileIdx]).ok
           /\ DOMAIN jsonFiles = 1 .. (fileIdx - 1)
           /\ \A i \in DOMAIN jsonFiles :
                  /\ RelFile(<<>>, extracts[i]).ok
                  /\ jsonFiles[i] = [state |-> "complete",
                                     content |-> RelFile(<<>>, extracts[i]).graph]

\* a line of the extract was accumulated in memory before the malformed one
C21_Witness ==
    /\ RelationAborted
    /\ graph # <<>>
    /\ fileIdx \notin DOMAIN jsonFiles

(***************************************************************************)
(* C22.  A line with the wrong number of fields ends the run in both       *)
(* parsers: collect_json never gets through a file with a line that has    *)
(* not 8 fields, and relation_graph_to_json never gets through a file with *)
(* a line that has not 4 fields, fewer or more.                            *)
(***************************************************************************)
\* the file the run has just parsed to its end
ParsedToEnd ==
    IF prog = "collect_json" /\ pc \in {"write", "dump"} THEN extracts[fileIdx + 1]
    ELSE IF prog = "relation_graph_to_json" /\ pc \in {"copy", "write", "dump"}
    THEN extracts[fileIdx]
    ELSE <<>>

FieldCount == IF prog = "collect_json" THEN 8 ELSE 4

C22_WrongFieldCountAborts ==
    prog \in {"collect_json", "relation_graph_to_json"} =>
        \A j \in DOMAIN ParsedToEnd : Len(ParsedToEnd[j]) = FieldCount

(***************************************************************************)
(* C23.  Every record the overlap mapper writes has both percentages in    *)
(* [0, 1], and each percentage is rounded by itself: below 1e-4 it is      *)
(* exactly 0, above 0.9999 exactly 1, and otherwise the quotient           *)
(* intersection area / area as it is, whatever the other percentage is.    *)
(***************************************************************************)
\* the fraction p is in [0, 1]
InUnitInterval(p) == p[2] > 0 /\ 0 <= p[1] /\ p[1] <= p[2]

\* p is what is stored for the quotient intersectArea / area
StoredFor(p, intersectArea, area) ==
    /\ intersectArea * 10000 < area => p = <<0, 1>>
    /\ intersectArea * 10000 > 9999 * area => p = <<1, 1>>
    /\ (intersectArea * 10000 >= area /\ intersectArea * 10000 <= 9999 * area) =>
           p = <<intersectArea, area>>

PolygonOfCell(cellId) ==
    (CHOOSE i \in DOMAIN milanPolygons : milanPolygons[i].cellId = cellId)

PolygonOfBlock(SEZ2011) ==
    (CHOOSE j \in DOMAIN censusPolygons : censusPolygons[j].SEZ2011 = SEZ2011)

C23_PercentagesRoundedSeparately ==
    prog = "create_sezioni_censimento_millan_grid_map" =>
        \A c \in DOMAIN grid : \A k \in DOMAIN grid[c] :
            LET record == grid[c][k]
                cell == milanPolygons[PolygonOfCell(c)].polygon
                block == censusPolygons[PolygonOfBlock(record.censusCodes.SEZ2011)].polygon
                intersectArea == Area(cell \cap block)
            IN /\ InUnitInterval(record.milanAreaPercentage)
               /\ InUnitInterval(record.censusAreaPercentage)
               /\ StoredFor(record.milanAreaPercentage, intersectArea, Area(cell))
               /\ StoredFor(record.censusAreaPercentage, intersectArea, Area(block))

\* the written mapping has a record with both percentages rounded, one with
\* only the cell percentage rounded, and one with none rounded
C23_Witness ==
    /\ MapperFinished
    /\ \E c \in DOMAIN grid : \E k \in DOMAIN grid[c] :
          /\ grid[c][k].milanAreaPercentage = <<1, 1>>
          /\ grid[c][k].censusAreaPercentage = <<1, 1>>
    /\ \E c \in DOMAIN grid : \E k \in DOMAIN grid[c] :
          /\ grid[c][k].milanAreaPercentage \in {<<0, 1>>, <<1, 1>>}
          /\ grid[c][k].censusAreaPercentage \notin {<<0, 1>>, <<1, 1>>}

(***************************************************************************)
(* C24.  milan_grid_census_blocks_map_reverse writes the exact inverse of  *)
(* the cell-to-block mapping: the list of block b has an entry with cellID *)
(* c exactly when the list of cell c has a record for b, with the same two *)
(* percentages, one entry per record; a cell with an empty list is in no   *)
(* entry, and no block has an empty list.                                  *)
(***************************************************************************)
ReverseFinished == prog = "milan_grid_census_blocks_map_reverse" /\ pc = "done"

\* the records cell c has for block b with the percentages of entry e
ForwardRecords(c, b, e) ==
    {k \in DOMAIN cellsMap[c] :
        /\ cellsMap[c][k].SEZ2011 = b
        /\ cellsMap[c][k].censusAreaPercentage = e.censusAreaPercentage
        /\ cellsMap[c][k].milanAreaPercentage = e.milanAreaPercentage}

\* the entries of block b that equal entry e
ReverseEntries(b, e) ==
    IF b \in DOMAIN blocksMap THEN {j \in DOMAIN blocksMap[b] : blocksMap[b][j] = e} ELSE {}

C24_ReverseIsInverse ==
    ReverseFinished =>
        /\ \A b \in DOMAIN blocksMap :
               /\ blocksMap[b] # <<>>
               /\ \A j \in DOMAIN blocksMap[b] :
                      LET e == blocksMap[b][j]
                      IN /\ e.SEZ2011 = b
                         /\ e.cellID \in DOMAIN cellsMap
                         /\ Cardinality(ReverseEntries(b, e)) =
                                Cardinality(ForwardRecords(e.cellID, b, e))
        /\ \A c \in DOMAIN cellsMap : \A k \in DOMAIN cellsMap[c] :
               LET e == CopyOf(c, cellsMap[c][k])
               IN Cardinality(ReverseEntries(e.SEZ2011, e)) =
                      Cardinality(ForwardRecords(c, e.SEZ2011, e))
        /\ blocksMap = ReverseMap(cellsMap)

\* a block that two cells overlap, and a cell that overlaps two blocks
C24_Witness ==
    /\ ReverseFinished
    /\ \E b \in DOMAIN blocksMap : Len(blocksMap[b]) = 2
    /\ \E c \in DOMAIN cellsMap : Len(cellsMap[c]) = 2

(***************************************************************************)
(* C25.  Redistribution never mutates its source graph: through every step *)
(* of create_census_blocks_graph and of get_block_graph (the traversal,    *)
(* the normalisation, the attribute pass and the fill of the holes) the    *)
(* source cell graph keeps its nodes, edges and edge weights; the target   *)
(* starts as a new empty graph, and no write to the target, an added node, *)
(* an accumulated weight or a halved weight, shows in the source.          *)
(***************************************************************************)
\* create_census_blocks_graph and get_block_graph together
SpecRedistribution ==
    /\ InitBlocks \/ InitCountries
    /\ [][NextBlocks \/ NextCountries \/ NextCountryAttributes]_vars

Redistributing == prog \in {"create_census_blocks_graph", "get_block_graph"}

SourceKept ==
    /\ cellsGraph'.nodes = cellsGraph.nodes
    /\ DOMAIN cellsGraph'.edges = DOMAIN cellsGraph.edges
    /\ \A e \in DOMAIN cellsGraph.edges : cellsGraph'.edges[e] = cellsGraph.edges[e]

\* the target is built from nothing: before the first block it is empty
TargetStartsEmpty ==
    (Redistributing /\ pc = "loop" /\ todo = SortedSeq(DOMAIN blocksMap)) =>
        blocksGraph = EmptyGraph

C25_SourceGraphNeverMutated ==
    /\ []TargetStartsEmpty
    /\ [][Redistributing => SourceKept]_vars

\* a finished run that read weighted source edges and wrote target edges
C25_Witness ==
    /\ Redistributing
    /\ pc = "done"
    /\ DOMAIN cellsGraph.edges # {}
    /\ DOMAIN blocksGraph.edges # {}
    /\ blocksGraph.nodes # cellsGraph.nodes

====
